---- MODULE Spec2Model ----
(***************************************************************************)
(* Verification model of scan_bot (sokach-dev/scan_money).                 *)
(*                                                                         *)
(*  Spec        the Detection Engine: Statistics::add_event tasks spawned  *)
(*              by MonitorRule::deal_scan_dealer, interleaved with the     *)
(*              periodic sweep of Statistics::start_monitor.               *)
(*  SpecAlarm   the alarm rule of the sweep as a pure function of one      *)
(*              mint's event sequence.                                     *)
(*  SpecBundle  the two-phase bundle confirmation state machine,           *)
(*              JITO::check_bundle_status / check_final_bundle_status.     *)
(*                                                                         *)
(* SOL amounts are counted in units of 0.05 SOL (50,000,000 lamports), so  *)
(* 1.0 SOL = 20, 0.5 SOL = 10.  The code converts lamports to f64 SOL and  *)
(* compares in f64; over the amounts used here (see EventInputs and        *)
(* AlarmAmounts) the f64 comparisons give the same answers as the integer  *)
(* comparisons below.                                                      *)
(***************************************************************************)
EXTENDS Integers, Sequences, FiniteSets, TLC

(***************************************************************************)
(* Bounds of the model.                                                    *)
(***************************************************************************)
\* number of trade events the monitor receives in one run
MaxEvents == 3
\* the wall clock advances from StartNow up to StartNow + MaxClockSteps
MaxClockSteps == 1
\* longest event sequence handed to the alarm rule in SpecAlarm
MaxSeqLen == 4

(***************************************************************************)
(* Program constants.                                                      *)
(***************************************************************************)
\* scan_dealer.rs:78   if (now_ts - record_ts) < 5 { continue; }
MIN_AGE_SECS == 5
\* scan_dealer.rs:84   if events.len() < 3 { continue; }
MIN_EVENTS == 3
\* scan_dealer.rs:96   first_sol * 0.15, as a percentage
TOLERANCE_PCT == 15
\* scan_dealer.rs:126  if sol_amount < 0.5 { return; }, in units of 0.05 SOL
NOISE_FLOOR == 10

\* the clock when the monitor starts: the bucket of timestamp 0 is one
\* second short of the age at which the sweep takes it
StartNow == MIN_AGE_SECS - 1
Clock == StartNow..(StartNow + MaxClockSteps)

\* TradeEventData (sol_client/mod.rs:35-46), the fields the engine reads
Event(mint, sol_amount, timestamp, is_buy) ==
    [mint |-> mint, sol_amount |-> sol_amount, timestamp |-> timestamp,
     is_buy |-> is_buy]

\* the decoded events the ingestion loop can receive: buys of 1.0, 1.3 and
\* 0.25 SOL and a sell of 0.25 SOL of one mint in the bucket of timestamp 0,
\* a buy of another mint in that bucket, and a buy in the bucket of
\* timestamp 9, which lies in the future of every clock value of the model
\* (TradeEventData.timestamp comes from the chain, now_ts from the host)
EventInputs ==
    {Event("mintA", 20, 0, TRUE), Event("mintA", 26, 0, TRUE),
     Event("mintA", 5, 0, TRUE), Event("mintA", 5, 0, FALSE),
     Event("mintB", 20, 0, TRUE), Event("mintA", 20, 9, TRUE)}

Mints == {e.mint : e \in EventInputs}
Timestamps == {e.timestamp : e \in EventInputs}

VARIABLES
    statistics_map,   \* Statistics.statistics_map: ts -> (mint -> Seq(event))
    spawned,          \* add_event tasks spawned and not yet run
    received,         \* number of events handed to deal_scan_dealer so far
    now,              \* Utc::now().timestamp()
    sweep_pc,         \* position of the sweep task: "tick" or "eval"
    ts_event_map,     \* the sweep's clone of statistics_map
    todo,             \* keys of ts_event_map the for loop has not visited yet
    remove_list,      \* the sweep's remove_list
    alarms,           \* the warn!("----> Alarm ...") lines emitted, in order
    evaluated,        \* history: events of buckets the alarm rule was run on
    removed_log,      \* history: buckets taken out by amount_map.remove
    rule_events,      \* SpecAlarm: the event sequence given to the rule
    rule_result,      \* SpecAlarm: "pending", then "alarm" or "no_alarm"
    alarm_threshold,  \* Statistics.alarm_threshold, from the configuration
    bundle_pc,        \* SpecBundle: "phase1", "phase2" or "done"
    attempt,          \* check_bundle_status: its loop variable attempt
    status_response,  \* check_bundle_status: the last status_response
    in_flight_polls,  \* history: calls of get_in_flight_bundle_statuses
    final_attempt,    \* check_final_bundle_status: its loop variable attempt
    final_response,   \* check_final_bundle_status: the last status_response
    final_polls,      \* history: calls of get_bundle_statuses
    bundle_result,    \* "running", or what check_bundle_status returned
    sub_kind,         \* SpecSub: "logs" or "program", the subscribe call made
    sub_pc,           \* position of the call: "connect", "subscribe", "read", "done"
    sub_result,       \* "running", or what the subscribe call returned
    connections,      \* history: calls of connect_async
    subscribe_requests, \* history: subscribe messages written
    stream_ended,     \* the websocket stream has reported an error
    frames,           \* history: what read.next() has yielded, in order
    channel,          \* the mpsc channel: frame numbers sent and not received
    sent,             \* history: frame numbers sent on the channel, in order
    consumed,         \* history: frame numbers the receiver has taken, in order
    receiver_open,    \* the receiving half of the channel still exists
    decode_input,     \* SpecDecode: the log line given to the decoder
    decode_result,    \* SpecDecode: Pending, or the outcome of the decoder
    tip_cell,         \* TIP_PERCENTILE: the shared Option<TipPercentileData>
    tips_percentile,  \* jito_config.tips_percentile
    feed_pc,          \* tip_stream: "connect", "read" or "done"
    feed_frames,      \* history: what tip_stream has read, in order
    tip_read,         \* NotRead, or what the last get_tip_value returned and
                      \* (history) the cell value it had cloned
    exec_args,        \* SpecExec: the arguments of Swap::swap
    exec_pc,          \* "idle", "swap", "tip", "sign", "submit" or "done"
    exec_result,      \* "running", or what Swap::swap returned
    instructions,     \* the instruction list, by kind
    tip_account_requests, \* history: calls of get_random_tip_account
    tip_capped,       \* the tip after tip.min(0.2)
    tip,              \* the tip after the extra tip is added
    extra_tip,        \* jito_config.extra_tip
    simulate,         \* the environment has TX_SIMULATE=true
    signed,           \* history: the instruction list that was signed
    bundles_submitted, \* history: calls of send_bundle
    relay_response,   \* what the relay answered to send_bundle, or "none"
    bundle_id,        \* the id send_bundle returned, or "none"
    ingest_pc,        \* SpecIngest: the ingestion loop of should_alert is
                      \* "idle", waits in "recv", is "done" or "panicked"
    logs,             \* the notification the loop took from the channel last
    handled,          \* history: notifications taken from the channel
    error_log,        \* history: "parse_program_data error" lines logged
    decoded_lines,    \* history: indexes of the lines of logs that were
                      \* handed to the decoder
    monitors,         \* SpecRules: the number of rules in c.monitors
    daemon_pc,        \* the rules the loop of daemon() has spawned tasks for
    manager_cell,     \* GLOBAL_STATISTICS_MANAGER holds a value
    rule_pc,          \* for each rule, where its should_alert task is
    sweep_tasks,      \* history: sweep tasks spawned by start_monitor
    log_subscriptions, \* history: start_log_subscribe tasks spawned
    tip_streams       \* history: tip_stream tasks spawned

detect_vars == <<statistics_map, spawned, received, now, sweep_pc, ts_event_map,
                 todo, remove_list, alarms, evaluated, removed_log>>
alarm_vars == <<rule_events, rule_result, alarm_threshold>>
bundle_vars == <<bundle_pc, attempt, status_response, in_flight_polls,
                 final_attempt, final_response, final_polls, bundle_result>>
sub_vars == <<sub_kind, sub_pc, sub_result, connections, subscribe_requests,
              stream_ended, frames, channel, sent, consumed, receiver_open>>
decode_vars == <<decode_input, decode_result>>
tip_vars == <<tip_cell, tips_percentile, feed_pc, feed_frames, tip_read>>
exec_vars == <<exec_args, exec_pc, exec_result, instructions, tip_account_requests,
               tip_capped, tip, extra_tip, simulate, signed, bundles_submitted,
               relay_response, bundle_id>>
ingest_vars == <<ingest_pc, logs, handled, error_log, decoded_lines>>
rule_vars == <<monitors, daemon_pc, manager_cell, rule_pc, sweep_tasks,
               log_subscriptions, tip_streams>>
vars == <<detect_vars, alarm_vars, bundle_vars, sub_vars, decode_vars, tip_vars,
          exec_vars, ingest_vars, rule_vars>>

(***************************************************************************)
(* Helpers.                                                                *)
(***************************************************************************)
EmptyMap == [k \in {} |-> 0]

\* a relay response as the status check reads it: shape says how far
\* result.value[0] can be followed, status is the "status" (in-flight
\* endpoint) or "confirmation_status" (final endpoint) member of value[0],
\* err its "err" member
Response(shape, status, err) == [shape |-> shape, status |-> status, err |-> err]

\* a log line as the decoder sees it: whether it starts with the prefix
\* "Program data: ", and the characters after the prefix (0..63 are the
\* digits of the base64 alphabet, 64 is '=', 65 is a character outside the
\* alphabet).  payload and damage record how the line was made: the bytes
\* that were encoded, and what was done to the encoded text afterwards.
Line(prefix, text, payload, damage) ==
    [prefix |-> prefix, text |-> text, payload |-> payload, damage |-> damage]

\* no line
NoLine == Line(FALSE, <<>>, <<>>, "none")

\* the cell holds no snapshot: None
NoSnapshot == [some |-> FALSE, data |-> <<>>]

\* the cell holds a snapshot: Some(data), data being the five landed-tip
\* percentiles 25, 50, 75, 95, 99 in that order
SomeSnapshot(data) == [some |-> TRUE, data |-> data]

\* get_tip_value has not been called
NotRead == [outcome |-> "pending", value |-> 0, seen |-> NoSnapshot]

\* the arguments of Swap::swap; buy_again is "None", "Some(true)" or "Some(false)"
SwapArgs(is_buy, address_ok, token_amount, buy_again) ==
    [is_buy |-> is_buy, address_ok |-> address_ok, token_amount |-> token_amount,
     buy_again |-> buy_again]

\* the decoder has not returned
Pending == [outcome |-> "pending", event |-> <<>>]

\* no response has been received yet
NoResponse == Response("none", "absent", "absent")

Abs(x) == IF x < 0 THEN -x ELSE x

\* all orders in which the elements of a finite set can be visited
RECURSIVE Orders(_)
Orders(S) ==
    IF S = {} THEN {<<>>}
    ELSE UNION {{<<x>> \o o : o \in Orders(S \ {x})} : x \in S}

\* every event stored in a bucket (mint -> Seq(event))
BucketEvents(coins) ==
    UNION {{coins[c][i] : i \in 1..Len(coins[c])} : c \in DOMAIN coins}

(***************************************************************************)
(* The alarm rule (scan_dealer.rs:83-106).                                 *)
(***************************************************************************)
\* a comparison that also rejects an amount exactly 15% away from the first
ExceedsTolerance_Inclusive(sol_amount, first_sol) ==
    100 * Abs(sol_amount - first_sol) >= first_sol * TOLERANCE_PCT

\* scan_dealer.rs:96   (sol_amount - first_sol).abs() > first_sol * 0.15
ExceedsTolerance(sol_amount, first_sol) ==
    100 * Abs(sol_amount - first_sol) > first_sol * TOLERANCE_PCT

\* scan_dealer.rs:88-102   the loop "for i in 0..3" with its break; i is the
\* 1-based index of the event the loop is at
RECURSIVE AlarmLoop(_, _, _)
AlarmLoop(events, i, first_sol) ==
    IF i > MIN_EVENTS THEN TRUE
    ELSE IF i = 1 THEN AlarmLoop(events, i + 1, events[1].sol_amount)
    ELSE IF ExceedsTolerance(events[i].sol_amount, first_sol) THEN FALSE
    ELSE AlarmLoop(events, i + 1, first_sol)

\* scan_dealer.rs:83-106   one iteration of "for (coin, events) in coins"
will_alarm(events) ==
    IF Len(events) < MIN_EVENTS THEN FALSE
    ELSE AlarmLoop(events, 1, 0)

\* the coins of a bucket for which the sweep emits the warn! line
AlarmCoins(coins) == {c \in DOMAIN coins : will_alarm(coins[c])}

(***************************************************************************)
(* Ingestion.                                                              *)
(***************************************************************************)
\* strategies/mod.rs:80-81 and scan_dealer.rs:157-164: the ingestion loop
\* hands a decoded event to deal_scan_dealer, which spawns an add_event task
\* and returns.  seq is the arrival number of the event.
deal_scan_dealer(e) ==
    /\ received < MaxEvents
    /\ received' = received + 1
    /\ spawned' = spawned \cup
           {[mint |-> e.mint, sol_amount |-> e.sol_amount,
             timestamp |-> e.timestamp, is_buy |-> e.is_buy,
             seq |-> received + 1]}
    /\ UNCHANGED <<statistics_map, now, sweep_pc, ts_event_map, todo,
                   remove_list, alarms, evaluated, removed_log>>

\* a noise filter with half the floor
BelowFloor_HalfFloor(event) == event.is_buy /\ 2 * event.sol_amount < NOISE_FLOOR

\* scan_dealer.rs:125-129   the noise filter of add_event
BelowFloor(event) == event.is_buy /\ event.sol_amount < NOISE_FLOOR

\* an insertion that, in a bucket that exists, pushes onto the sequence of
\* whichever mint the bucket already holds
Inserted_AnyMint(event_map, event) ==
    LET ts == event.timestamp
    IN  IF ts \in DOMAIN event_map
        THEN LET c == CHOOSE x \in DOMAIN event_map[ts] : TRUE
             IN  [event_map EXCEPT ![ts][c] = Append(@, event)]
        ELSE [t \in DOMAIN event_map \cup {ts} |->
                  IF t = ts THEN [x \in {event.mint} |-> <<event>>]
                  ELSE event_map[t]]

\* scan_dealer.rs:136-152   event_map.entry(ts).and_modify(..).or_insert(..)
Inserted(event_map, event) ==
    LET ts == event.timestamp
        mint == event.mint
    IN  IF ts \in DOMAIN event_map
        THEN LET coins == event_map[ts]
                 coins2 ==
                     IF mint \in DOMAIN coins
                     THEN [coins EXCEPT ![mint] = Append(@, event)]
                     ELSE [c \in DOMAIN coins \cup {mint} |->
                               IF c = mint THEN <<event>> ELSE coins[c]]
             IN  [event_map EXCEPT ![ts] = coins2]
        ELSE [t \in DOMAIN event_map \cup {ts} |->
                  IF t = ts THEN [c \in {mint} |-> <<event>>] ELSE event_map[t]]

\* scan_dealer.rs:119-153   one spawned add_event task runs; the tasks run
\* on a multi-threaded runtime, in any order
add_event(event) ==
    /\ event \in spawned
    /\ spawned' = spawned \ {event}
    /\ statistics_map' =
           IF BelowFloor(event) THEN statistics_map
           ELSE Inserted(statistics_map, event)
    /\ UNCHANGED <<received, now, sweep_pc, ts_event_map, todo, remove_list,
                   alarms, evaluated, removed_log>>

(***************************************************************************)
(* The sweep task (scan_dealer.rs:60-116).                                 *)
(***************************************************************************)
\* scan_dealer.rs:65-68   interval.tick(), remove_list = Vec::new(), and the
\* clone of the map taken under the read lock
SweepSnapshot ==
    /\ sweep_pc = "tick"
    /\ sweep_pc' = "eval"
    /\ ts_event_map' = statistics_map
    /\ todo' = DOMAIN statistics_map
    /\ remove_list' = {}
    /\ UNCHANGED <<statistics_map, spawned, received, now, alarms, evaluated,
                   removed_log>>

\* an age test that asks for one second more
TooYoung_OneMore(now_ts, record_ts) == (now_ts - record_ts) < MIN_AGE_SECS + 1

\* an age test that takes the distance to the clock in either direction
TooYoung_Distance(now_ts, record_ts) == Abs(now_ts - record_ts) < MIN_AGE_SECS

\* scan_dealer.rs:78   (now_ts - record_ts) < 5
TooYoung(now_ts, record_ts) == (now_ts - record_ts) < MIN_AGE_SECS

\* scan_dealer.rs:74-107   one iteration of "for (ts, coins) in ts_event_map";
\* a HashMap is iterated in an arbitrary order, and the clock is read anew in
\* every iteration
SweepEvaluate(ts) ==
    /\ sweep_pc = "eval"
    /\ ts \in todo
    /\ todo' = todo \ {ts}
    /\ IF TooYoung(now, ts)
       THEN UNCHANGED <<remove_list, alarms, evaluated>>
       ELSE /\ remove_list' = remove_list \cup {ts}
            /\ evaluated' = evaluated \cup BucketEvents(ts_event_map[ts])
            /\ \E order \in Orders(AlarmCoins(ts_event_map[ts])) :
                   alarms' = alarms \o
                       [i \in 1..Len(order) |->
                           [ts |-> ts, coin |-> order[i],
                            sol |-> ts_event_map[ts][order[i]][1].sol_amount]]
    /\ UNCHANGED <<statistics_map, spawned, received, now, sweep_pc,
                   ts_event_map, removed_log>>

\* scan_dealer.rs:109-114   amount_map.remove(&ts) for every ts of the
\* remove_list, under one write lock; then the loop waits for the next tick
SweepRemove ==
    /\ sweep_pc = "eval"
    /\ todo = {}
    /\ sweep_pc' = "tick"
    /\ statistics_map' =
           [t \in DOMAIN statistics_map \ remove_list |-> statistics_map[t]]
    /\ removed_log' = removed_log \cup
           {[ts |-> t, coins |-> statistics_map[t]] :
                t \in remove_list \cap DOMAIN statistics_map}
    /\ ts_event_map' = EmptyMap
    /\ remove_list' = {}
    /\ UNCHANGED <<spawned, received, now, todo, alarms, evaluated>>

\* the wall clock moves on by one second
ClockTick ==
    /\ now < StartNow + MaxClockSteps
    /\ now' = now + 1
    /\ UNCHANGED <<statistics_map, spawned, received, sweep_pc, ts_event_map,
                   todo, remove_list, alarms, evaluated, removed_log>>

(***************************************************************************)
(* Specification of the Detection Engine.                                  *)
(***************************************************************************)
\* scan_dealer.rs:34-38   Statistics { statistics_map: HashMap::new(), .. }
DetectInit ==
    /\ statistics_map = EmptyMap
    /\ spawned = {}
    /\ received = 0
    /\ now = StartNow
    /\ sweep_pc = "tick"
    /\ ts_event_map = EmptyMap
    /\ todo = {}
    /\ remove_list = {}
    /\ alarms = <<>>
    /\ evaluated = {}
    /\ removed_log = {}

AlarmIdle ==
    /\ rule_events = <<>>
    /\ rule_result = "pending"
    /\ alarm_threshold = TOLERANCE_PCT

\* no bundle check is running
BundleIdle ==
    /\ bundle_pc = "done"
    /\ attempt = 0
    /\ status_response = NoResponse
    /\ in_flight_polls = 0
    /\ final_attempt = 0
    /\ final_response = NoResponse
    /\ final_polls = 0
    /\ bundle_result = "running"

\* no subscribe call is running
SubIdle ==
    /\ sub_kind = "logs"
    /\ sub_pc = "done"
    /\ sub_result = "running"
    /\ connections = 0
    /\ subscribe_requests = 0
    /\ stream_ended = FALSE
    /\ frames = <<>>
    /\ channel = <<>>
    /\ sent = <<>>
    /\ consumed = <<>>
    /\ receiver_open = TRUE

\* no line is being decoded
DecodeIdle ==
    /\ decode_input = NoLine
    /\ decode_result = Pending

\* the fee feed is not running and nothing has been read from the cell
TipIdle ==
    /\ tip_cell = NoSnapshot
    /\ tips_percentile = 50
    /\ feed_pc = "done"
    /\ feed_frames = <<>>
    /\ tip_read = NotRead

\* Swap::swap has not been called
ExecIdle ==
    /\ exec_args = SwapArgs(FALSE, FALSE, 0, "None")
    /\ exec_pc = "idle"
    /\ exec_result = "running"
    /\ instructions = <<>>
    /\ tip_account_requests = 0
    /\ tip_capped = 0
    /\ tip = 0
    /\ extra_tip = 0
    /\ simulate = FALSE
    /\ signed = <<>>
    /\ bundles_submitted = 0
    /\ relay_response = "none"
    /\ bundle_id = "none"

\* the ingestion loop has not been entered
IngestIdle ==
    /\ ingest_pc = "idle"
    /\ logs = <<>>
    /\ handled = 0
    /\ error_log = 0
    /\ decoded_lines = <<>>

\* daemon() has not been called
RulesIdle ==
    /\ monitors = 0
    /\ daemon_pc = 0
    /\ manager_cell = FALSE
    /\ rule_pc = <<>>
    /\ sweep_tasks = 0
    /\ log_subscriptions = 0
    /\ tip_streams = 0

Init ==
    /\ DetectInit /\ AlarmIdle /\ BundleIdle /\ SubIdle /\ DecodeIdle /\ TipIdle
    /\ ExecIdle /\ IngestIdle /\ RulesIdle

Receive == \E e \in EventInputs : deal_scan_dealer(e)
RunAddEvent == \E event \in spawned : add_event(event)
Evaluate == \E ts \in Timestamps : SweepEvaluate(ts)

Next ==
    \/ Receive /\ UNCHANGED <<alarm_vars, bundle_vars, sub_vars, decode_vars, tip_vars, exec_vars, ingest_vars, rule_vars>>
    \/ RunAddEvent /\ UNCHANGED <<alarm_vars, bundle_vars, sub_vars, decode_vars, tip_vars, exec_vars, ingest_vars, rule_vars>>
    \/ SweepSnapshot /\ UNCHANGED <<alarm_vars, bundle_vars, sub_vars, decode_vars, tip_vars, exec_vars, ingest_vars, rule_vars>>
    \/ Evaluate /\ UNCHANGED <<alarm_vars, bundle_vars, sub_vars, decode_vars, tip_vars, exec_vars, ingest_vars, rule_vars>>
    \/ SweepRemove /\ UNCHANGED <<alarm_vars, bundle_vars, sub_vars, decode_vars, tip_vars, exec_vars, ingest_vars, rule_vars>>
    \/ ClockTick /\ UNCHANGED <<alarm_vars, bundle_vars, sub_vars, decode_vars, tip_vars, exec_vars, ingest_vars, rule_vars>>

Spec == Init /\ [][Next]_vars

\* what the steps of the Detection Engine leave alone
idle_vars == <<alarm_vars, bundle_vars, sub_vars, decode_vars, tip_vars, exec_vars,
               ingest_vars, rule_vars>>

\* The steps of Next, with the arriving events limited to what matters for
\* the removal of a bucket, its timestamp: buys above the noise floor into
\* the bucket of timestamp 0 and into the bucket of the future timestamp 9.
LiveNext ==
    \/ (\E e \in {Event("mintA", 20, 0, TRUE), Event("mintA", 20, 9, TRUE)} : deal_scan_dealer(e)) /\ UNCHANGED idle_vars
    \/ RunAddEvent /\ UNCHANGED idle_vars
    \/ SweepSnapshot /\ UNCHANGED idle_vars
    \/ Evaluate /\ UNCHANGED idle_vars
    \/ SweepRemove /\ UNCHANGED idle_vars
    \/ ClockTick /\ UNCHANGED idle_vars

\* The Detection Engine under the scheduling the code relies on.  The sweep
\* task is a loop around interval.tick() (scan_dealer.rs:62-65): the tick
\* comes back every check_interval seconds, the loop body has no await but
\* the two lock acquisitions, and the tokio RwLock is fair and held by
\* add_event only for one insertion, so every step of the sweep that can
\* be taken is taken.  The runtime runs every spawned add_event task, and
\* the wall clock moves on.  The arrival of events is left to the
\* environment: no fairness is asked of it.
SpecLive ==
    /\ Init
    /\ [][LiveNext]_vars
    /\ WF_vars(SweepSnapshot /\ UNCHANGED idle_vars)
    /\ WF_vars(Evaluate /\ UNCHANGED idle_vars)
    /\ WF_vars(SweepRemove /\ UNCHANGED idle_vars)
    /\ WF_vars(RunAddEvent /\ UNCHANGED idle_vars)
    /\ WF_vars(ClockTick /\ UNCHANGED idle_vars)

(***************************************************************************)
(* Specification of the alarm rule alone: one mint's event sequence of an  *)
(* aged bucket is drawn from the bounded set below and the rule of the     *)
(* sweep is applied to it.                                                 *)
(***************************************************************************)
\* 0.95, 1.0, 1.1, 1.3, 4.25, 5.0 and 5.75 SOL: 4.25 and 5.75 SOL lie exactly
\* 15% below and above 5.0 SOL
AlarmAmounts == {19, 20, 22, 26, 85, 100, 115}

AmountSeqs == UNION {[1..n -> AlarmAmounts] : n \in 0..MaxSeqLen}

EventsOf(amounts) ==
    [i \in 1..Len(amounts) |->
        [mint |-> "mintA", sol_amount |-> amounts[i], timestamp |-> 0,
         is_buy |-> TRUE, seq |-> i]]

AmountsOf(events) == [i \in 1..Len(events) |-> events[i].sol_amount]

\* values of alarm_threshold in the configuration, in percent
AlarmThresholds == {15, 50}

AlarmInit ==
    /\ DetectInit
    /\ TipIdle
    /\ ExecIdle
    /\ IngestIdle
    /\ RulesIdle
    /\ BundleIdle
    /\ SubIdle
    /\ DecodeIdle
    /\ \E amounts \in AmountSeqs : rule_events = EventsOf(amounts)
    /\ rule_result = "pending"
    /\ alarm_threshold \in AlarmThresholds

\* scan_dealer.rs:83-106 applied to rule_events
EvaluateRule ==
    /\ rule_result = "pending"
    /\ rule_result' = IF will_alarm(rule_events) THEN "alarm" ELSE "no_alarm"
    /\ UNCHANGED <<rule_events, alarm_threshold, detect_vars, bundle_vars, sub_vars, decode_vars, tip_vars, exec_vars, ingest_vars, rule_vars>>

AlarmNext == EvaluateRule

SpecAlarm == AlarmInit /\ [][AlarmNext]_vars

(***************************************************************************)
(* The bundle confirmation check (jito/bundle_status.rs).                  *)
(***************************************************************************)
\* bundle_status.rs:17   let max_retries = 10;  (check_bundle_status)
max_retries == 10
\* bundle_status.rs:75   let max_retries = 10;  (check_final_bundle_status)
final_max_retries == 10

\* what a call of the relay client can come back with when result.value[0]
\* cannot be followed: the call itself fails (Err), the response has neither
\* "result" nor "error", it has "error" and no "result", its result has no
\* "value", the value is not an array, the array is empty
BrokenShapes ==
    {"transport_error", "no_result", "error_object", "no_value",
     "value_not_array", "value_empty"}

BrokenResponses == {Response(sh, "absent", "absent") : sh \in BrokenShapes}

\* "status" of value[0]: three strings, a value that is no string, no member
InFlightStatuses == {"Landed", "Pending", "Failed", "not_a_string", "absent"}

\* "confirmation_status" of value[0]
FinalStatuses == {"confirmed", "finalized", "processed", "not_a_string", "absent"}

\* "err" of value[0]: no member, null, {"Ok": null}, {"Ok": <non-null>},
\* {"Err": <error>}
ErrValues == {"absent", "null", "ok_null", "ok_value", "err_object"}

\* responses of get_in_flight_bundle_statuses
InFlightResponses ==
    BrokenResponses \cup
    {Response("value_one", st, "absent") : st \in InFlightStatuses}

\* responses of get_bundle_statuses
FinalResponses ==
    BrokenResponses \cup
    {Response("value_one", st, err) : st \in FinalStatuses, err \in ErrValues}

\* an in-flight check that also advances on the status Pending
InFlightLanded_OrPending(resp) ==
    /\ resp.shape = "value_one"
    /\ resp.status \in {"Landed", "Pending"}

\* bundle_status.rs:30-36   the nested if-lets reach the arm Some("Landed")
InFlightLanded(resp) ==
    /\ resp.shape = "value_one"
    /\ resp.status = "Landed"

\* the range 1..=max_retries of a for loop has no iteration after this one
LoopEnds_OffByOne(n, max) == n > max

\* bundle_status.rs:20 and :78   for attempt in 1..=max_retries
LoopEnds(n, max) == n >= max

\* bundle_status.rs:124-130   get_bundle_status fails unless
\* result.value[0] exists
BundleStatusParses(resp) == resp.shape = "value_one"

\* bundle_status.rs:132-135   confirmation_status: get(..).and_then(as_str)
confirmation_status(resp) ==
    IF resp.status \in {"not_a_string", "absent"} THEN "None" ELSE resp.status

\* bundle_status.rs:150   err["Ok"]: indexing a value that is no object, or an
\* object without the member, yields null
OkMemberIsNull(err) == err # "ok_value"

\* the check fails for every err member that is present and not null
check_transaction_error_NonNull(resp) ==
    IF resp.err \notin {"absent", "null"} THEN "Err" ELSE "Ok"

\* bundle_status.rs:148-160   check_transaction_error
check_transaction_error(resp) ==
    IF resp.err # "absent"
    THEN IF OkMemberIsNull(resp.err) THEN "Ok" ELSE "Err"
    ELSE "Ok"

\* check_bundle_status returns result
Return(result) ==
    /\ bundle_pc' = "done"
    /\ bundle_result' = result

\* bundle_status.rs:20-72   one iteration of the loop of check_bundle_status:
\* the in-flight poll and what the loop does with its response
PollInFlight(resp) ==
    /\ bundle_pc = "phase1"
    /\ in_flight_polls' = in_flight_polls + 1
    /\ status_response' = resp
    /\ IF resp.shape = "transport_error"
       THEN \* .await? at line 28
            /\ Return("TransportError")
            /\ UNCHANGED <<attempt, final_attempt>>
       ELSE IF InFlightLanded(resp)
       THEN \* return self.check_final_bundle_status(bundle_uuid).await
            /\ bundle_pc' = "phase2"
            /\ final_attempt' = 1
            /\ UNCHANGED <<attempt, bundle_result>>
       ELSE IF LoopEnds(attempt, max_retries)
       THEN \* Ok(()) at line 72
            /\ Return("Ok")
            /\ UNCHANGED <<attempt, final_attempt>>
       ELSE \* sleep(retry_delay), next attempt
            /\ attempt' = attempt + 1
            /\ UNCHANGED <<bundle_pc, bundle_result, final_attempt>>
    /\ UNCHANGED <<final_response, final_polls>>

\* bundle_status.rs:112-120   the end of an iteration that did not return
FinalContinue ==
    IF LoopEnds(final_attempt, final_max_retries)
    THEN /\ Return("ConfirmationTimeout")
         /\ UNCHANGED final_attempt
    ELSE /\ final_attempt' = final_attempt + 1
         /\ UNCHANGED <<bundle_pc, bundle_result>>

\* bundle_status.rs:78-120   one iteration of the loop of
\* check_final_bundle_status
PollFinal(resp) ==
    /\ bundle_pc = "phase2"
    /\ final_polls' = final_polls + 1
    /\ final_response' = resp
    /\ IF resp.shape = "transport_error"
       THEN \* .await? at line 87
            /\ Return("TransportError")
            /\ UNCHANGED final_attempt
       ELSE IF ~BundleStatusParses(resp)
       THEN \* get_bundle_status(&status_response)? at line 88
            /\ Return("ParseError")
            /\ UNCHANGED final_attempt
       ELSE IF confirmation_status(resp) = "confirmed"
       THEN IF check_transaction_error(resp) = "Err"
            THEN /\ Return("TransactionFailed")
                 /\ UNCHANGED final_attempt
            ELSE FinalContinue
       ELSE IF confirmation_status(resp) = "finalized"
       THEN /\ Return(IF check_transaction_error(resp) = "Err"
                      THEN "TransactionFailed" ELSE "Ok")
            /\ UNCHANGED final_attempt
       ELSE FinalContinue
    /\ UNCHANGED <<attempt, status_response, in_flight_polls>>

\* bundle_status.rs:16-20   check_bundle_status has been called and is about
\* to make its first attempt
BundleInit ==
    /\ DetectInit
    /\ TipIdle
    /\ ExecIdle
    /\ IngestIdle
    /\ RulesIdle
    /\ AlarmIdle
    /\ SubIdle
    /\ DecodeIdle
    /\ bundle_pc = "phase1"
    /\ attempt = 1
    /\ status_response = NoResponse
    /\ in_flight_polls = 0
    /\ final_attempt = 0
    /\ final_response = NoResponse
    /\ final_polls = 0
    /\ bundle_result = "running"

Phase1Poll == \E resp \in InFlightResponses : PollInFlight(resp)
Phase2Poll == \E resp \in FinalResponses : PollFinal(resp)

BundleNext ==
    \/ Phase1Poll /\ UNCHANGED <<detect_vars, alarm_vars, sub_vars, decode_vars, tip_vars, exec_vars, ingest_vars, rule_vars>>
    \/ Phase2Poll /\ UNCHANGED <<detect_vars, alarm_vars, sub_vars, decode_vars, tip_vars, exec_vars, ingest_vars, rule_vars>>

SpecBundle == BundleInit /\ [][BundleNext]_vars

(***************************************************************************)
(* Claims about the Detection Engine.                                      *)
(***************************************************************************)
\* number of alarm lines emitted for the mint c of the bucket of timestamp t
AlarmCount(t, c) ==
    Cardinality({i \in 1..Len(alarms) : alarms[i].ts = t /\ alarms[i].coin = c})

\* number of times a bucket of timestamp t was removed
RemovalCount(t) == Cardinality({r \in removed_log : r.ts = t})

\* C1: evaluate-then-evict.  Every event a sweep removes from the window
\* belongs to the bucket contents that the sweep ran the alarm rule on: no
\* event is evicted without having been evaluated.
C1_EvaluateThenEvict ==
    \A r \in removed_log : BucketEvents(r.coins) \subseteq evaluated

\* C8: a timestamp bucket is removed at most once.  After a sweep removed the
\* bucket of timestamp t, no later sweep removes a bucket of timestamp t.
C8_RemovedAtMostOnce ==
    \A t \in Timestamps : RemovalCount(t) <= 1

\* a mint's event sequence qualifies: it holds at least three events, all of
\* them buys, and the second and third amount are within 15% of the first
Qualifying(events) ==
    /\ Len(events) >= 3
    /\ \A i \in 1..Len(events) : events[i].is_buy
    /\ \A i \in 2..3 :
           /\ 100 * events[i].sol_amount >= 85 * events[1].sol_amount
           /\ 100 * events[i].sol_amount <= 115 * events[1].sol_amount

\* C9: exactly one alarm per qualifying bucket.  A removed mint/timestamp
\* bucket whose first three events are within 15% of the first has raised
\* exactly one alarm, and no mint/timestamp pair ever raises more than one.
C9_ExactlyOneAlarm ==
    /\ \A t \in Timestamps, c \in Mints : AlarmCount(t, c) <= 1
    /\ \A r \in removed_log : \A c \in DOMAIN r.coins :
           Qualifying(r.coins[c]) => AlarmCount(r.ts, c) = 1

\* s is within 15% of the baseline first, both bounds included
WithinFifteenPercent(s, first) ==
    /\ 100 * s >= 85 * first
    /\ 100 * s <= 115 * first

Phase2Started == bundle_pc = "phase2" \/ final_polls > 0

\* the last in-flight poll returned the status Landed
LandedSeen ==
    /\ in_flight_polls > 0
    /\ status_response.shape = "value_one"
    /\ status_response.status = "Landed"

\* the last final-status poll returned the confirmation status finalized
FinalizedSeen ==
    /\ final_polls > 0
    /\ final_response.shape = "value_one"
    /\ final_response.status = "finalized"

\* the last final-status poll returned a response of the relay, finalized or
\* not (the call did not fail in transport)
FinalResponded ==
    /\ final_polls > 0
    /\ final_response.shape # "transport_error"

\* C2: phase transitions are one-directional.  Phase 2 is entered only after
\* an in-flight poll returned Landed, and once Phase 2 has started no further
\* in-flight poll is made.
C2_OneDirectional ==
    /\ [](Phase2Started => LandedSeen)
    /\ [][Phase2Started => in_flight_polls' = in_flight_polls]_vars

\* the check went through several in-flight polls and then through several
\* final-status polls
C2_Witness ==
    /\ in_flight_polls >= 2
    /\ final_polls >= 2

\* C3: once Phase 2 is running, the check ends only by observing finalized or
\* by exhausting the Phase 2 attempts (ConfirmationTimeout).
C3_OnlyTwoOutcomes ==
    (bundle_pc = "done" /\ FinalResponded) =>
        \/ FinalizedSeen
        \/ (final_polls = 10 /\ bundle_result = "ConfirmationTimeout")

\* C4: in Phase 2 every response whose confirmation status is not finalized
\* leaves the check running while attempts remain: no terminal result.
C4_NonFinalKeepsRunning ==
    (FinalResponded /\ ~FinalizedSeen /\ final_polls < 10) =>
        (bundle_pc = "phase2" /\ bundle_result = "running")

\* the err member of the response carries an error: it is present, not null
\* and not {"Ok": null}, the serialised form of a transaction without error
ErrNonNull(resp) == resp.err \notin {"absent", "null", "ok_null"}

\* C5: when Phase 2 observes finalized, the result is TransactionFailed if and
\* only if the response carries a non-null transaction error; with a null or
\* absent error the result is success.
C5_FailedIffErrNonNull ==
    (bundle_pc = "done" /\ FinalizedSeen) =>
        IF ErrNonNull(final_response)
        THEN bundle_result = "TransactionFailed"
        ELSE bundle_result = "Ok"

\* C6: Phase 1 is bounded and best-effort.  At most 10 in-flight polls are
\* made; every response other than Landed leads to a retry while attempts
\* remain; when the 10th response is not Landed either, the check ends
\* without error and Phase 2 is never entered.
C6_Phase1Bounded ==
    /\ in_flight_polls <= 10
    /\ (/\ in_flight_polls > 0
        /\ status_response.shape # "transport_error"
        /\ ~LandedSeen) =>
           IF in_flight_polls < 10
           THEN bundle_pc = "phase1" /\ bundle_result = "running"
           ELSE bundle_pc = "done" /\ bundle_result = "Ok" /\ final_polls = 0

\* ten in-flight polls were made, the last answered by an error object of the
\* relay, and the check has returned Ok
C6_Witness ==
    /\ in_flight_polls = 10
    /\ status_response.shape = "error_object"
    /\ bundle_pc = "done"
    /\ bundle_result = "Ok"

\* C7: Phase 2 is bounded.  At most 10 final-status polls are made, whatever
\* the number of in-flight polls before, and when the 10th is answered without
\* finalized the check ends with ConfirmationTimeout.
C7_Phase2Timeout ==
    /\ final_polls <= 10
    /\ (FinalResponded /\ final_polls = 10 /\ ~FinalizedSeen) =>
           (bundle_pc = "done" /\ bundle_result = "ConfirmationTimeout")

(***************************************************************************)
(* Claims about ingestion and the shape of the window.                     *)
(***************************************************************************)
\* every event stored in the window
WindowEvents ==
    UNION {BucketEvents(statistics_map[t]) : t \in DOMAIN statistics_map}

\* the events of mint c that sweeps have removed with buckets of timestamp t
RemovedEventsOf(t, c) ==
    UNION {{r.coins[c][i] : i \in 1..Len(r.coins[c])} :
               r \in {x \in removed_log : x.ts = t /\ c \in DOMAIN x.coins}}

\* every event of the set is a buy of at least 0.5 SOL and any two of them
\* are within 15% of each other
AllMatching(evs) ==
    /\ \A e \in evs : e.is_buy /\ e.sol_amount >= 10
    /\ \A e1, e2 \in evs :
           /\ 100 * e2.sol_amount >= 85 * e1.sol_amount
           /\ 100 * e2.sol_amount <= 115 * e1.sol_amount

\* C11: end-to-end liveness.  When three accepted buys with matching amounts
\* for one mint and one timestamp have been received, an alarm for that mint
\* is emitted by the sweep that takes the aged bucket: once sweeps have taken
\* three such events (and no other event of that mint and timestamp) out of
\* the window, the alarm has been raised.
C11_MatchingEventsAlarm ==
    \A t \in Timestamps, c \in Mints :
        (Cardinality(RemovedEventsOf(t, c)) >= 3 /\ AllMatching(RemovedEventsOf(t, c)))
            => AlarmCount(t, c) >= 1

\* C12: arrival order is preserved into the window.  Of two events of one
\* mint and timestamp the one received first precedes the other in
\* window[timestamp][mint].
C12_ArrivalOrder ==
    \A t \in DOMAIN statistics_map : \A c \in DOMAIN statistics_map[t] :
        \A i, j \in 1..Len(statistics_map[t][c]) :
            i < j => statistics_map[t][c][i].seq < statistics_map[t][c][j].seq

\* an add_event task of a buy below 0.5 SOL runs in this step
DropsBelowFloorBuy ==
    \E e \in spawned :
        /\ e.is_buy
        /\ e.sol_amount < 10
        /\ spawned' = spawned \ {e}

\* C13: noise filter.  add_event called with a buy below 0.5 SOL leaves the
\* window unchanged, and the window never holds a buy below 0.5 SOL.
C13_NoiseFilter ==
    /\ [](\A e \in WindowEvents : e.is_buy => e.sol_amount >= 10)
    /\ [][DropsBelowFloorBuy => statistics_map' = statistics_map]_vars

\* two add_event tasks have run, one of them for a buy of 0.25 SOL, and the
\* window holds the other event alone
C13_Witness ==
    /\ received = 2
    /\ spawned = {}
    /\ removed_log = {}
    /\ Cardinality(WindowEvents) = 1
    /\ \E e \in WindowEvents : e.sol_amount = 20

\* C14: window shape.  Every event stored in window[t][m] has timestamp t and
\* mint m, every stored sequence is non-empty, and every present bucket holds
\* at least one mint.
C14_WindowShape ==
    \A t \in DOMAIN statistics_map :
        /\ DOMAIN statistics_map[t] # {}
        /\ \A c \in DOMAIN statistics_map[t] :
               /\ Len(statistics_map[t][c]) >= 1
               /\ \A i \in 1..Len(statistics_map[t][c]) :
                      /\ statistics_map[t][c][i].timestamp = t
                      /\ statistics_map[t][c][i].mint = c

\* the window holds two buckets, one of them with two mints
C14_Witness ==
    /\ Cardinality(DOMAIN statistics_map) = 2
    /\ \E t \in DOMAIN statistics_map : Cardinality(DOMAIN statistics_map[t]) = 2

(***************************************************************************)
(* The subscription client: start_log_subscribe and                        *)
(* start_program_subscribe.  One call connects, writes one subscribe       *)
(* message and then reads the websocket stream item by item.               *)
(***************************************************************************)

\* bound on the frames one call reads before the connection closes
MaxFrames == 3

\* the two subscribe calls
SubKinds == {"logs", "program"}

\* a text frame, by how far it gets through the handler: not JSON, JSON
\* without "params", "params" without "result", a result that does not
\* decode as the notification, a notification with err set, a
\* notification with err null
TextFrames(kind) ==
    {"invalid_json", "no_params", "no_result", "undecodable", "notification"}
        \cup (IF kind = "logs" THEN {"notification_err"} ELSE {})

\* what read.next() can yield: Some(Ok(text)), Some(Ok(other message)),
\* Some(Err(e)), None.  The stream yields None after it has reported an error.
StreamItems(kind) ==
    IF stream_ended \/ Len(frames) >= MaxFrames
    THEN {"closed"}
    ELSE TextFrames(kind) \cup {"binary", "transport_error", "closed"}

\* serde_json::from_str(&text) succeeds
IsJson(frame) == frame # "invalid_json"

\* params.result is present and decodes as the notification envelope
Decodes(frame) == frame \in {"notification", "notification_err"}

\* log.value.err.is_none()
ErrIsNone(frame) == frame = "notification"

\* the handler sends the notification of this frame on the channel,
\* with the err check left out
Forwards_IgnoreErr(kind, frame) == Decodes(frame)

\* the handler sends the notification of this frame on the channel
Forwards(kind, frame) ==
    Decodes(frame) /\ (kind = "logs" => ErrIsNone(frame))

\* sender.send(value), with the value put ahead of the waiting ones
Enqueue_Front(ch, x) == <<x>> \o ch

\* sender.send(value): the channel is first in, first out
Enqueue(ch, x) == Append(ch, x)

\* where the call goes when the stream yields None, for a call that connects again
AfterStreamEnd_Reconnect == "connect"

\* where the call goes when the stream yields None: out of the loop, Ok(())
AfterStreamEnd == "done"

\* connect_async(url).await? : the connection is made, or the call returns Err
Connect(ok) ==
    /\ sub_pc = "connect"
    /\ connections' = connections + 1
    /\ IF ok
       THEN /\ sub_pc' = "subscribe"
            /\ UNCHANGED sub_result
       ELSE /\ sub_pc' = "done"
            /\ sub_result' = "ConnectErr"
    /\ UNCHANGED <<sub_kind, subscribe_requests, stream_ended, frames,
                   channel, sent, consumed, receiver_open>>

\* write.send(sub_msg).await? : the request is written, or the call returns Err
Subscribe(ok) ==
    /\ sub_pc = "subscribe"
    /\ subscribe_requests' = subscribe_requests + 1
    /\ IF ok
       THEN /\ sub_pc' = "read"
            /\ UNCHANGED sub_result
       ELSE /\ sub_pc' = "done"
            /\ sub_result' = "SendErr"
    /\ UNCHANGED <<sub_kind, connections, stream_ended, frames,
                   channel, sent, consumed, receiver_open>>

\* one turn of `while let Some(msg) = read.next().await`
ReadItem(item) ==
    /\ sub_pc = "read"
    /\ item \in StreamItems(sub_kind)
    /\ frames' = Append(frames, item)
    /\ stream_ended' = (stream_ended \/ item = "transport_error")
    /\ IF item = "closed"
       THEN /\ sub_pc' = AfterStreamEnd
            /\ sub_result' = "Ok"
       ELSE IF item \in TextFrames(sub_kind) /\ ~IsJson(item)
       THEN /\ sub_pc' = "done"
            /\ sub_result' = "JsonErr"
       ELSE UNCHANGED <<sub_pc, sub_result>>
    /\ IF item \in TextFrames(sub_kind) /\ Forwards(sub_kind, item) /\ receiver_open
       THEN /\ channel' = Enqueue(channel, Len(frames) + 1)
            /\ sent' = Append(sent, Len(frames) + 1)
       ELSE UNCHANGED <<channel, sent>>
    /\ UNCHANGED <<sub_kind, connections, subscribe_requests, consumed, receiver_open>>

\* the consumer takes the next notification: receiver.recv().await
Recv ==
    /\ receiver_open
    /\ channel # <<>>
    /\ consumed' = Append(consumed, Head(channel))
    /\ channel' = Tail(channel)
    /\ UNCHANGED <<sub_kind, sub_pc, sub_result, connections, subscribe_requests,
                   stream_ended, frames, sent, receiver_open>>

\* the consumer goes away and the receiving half is dropped
DropReceiver ==
    /\ receiver_open
    /\ sub_pc # "connect"
    /\ receiver_open' = FALSE
    /\ channel' = <<>>
    /\ UNCHANGED <<sub_kind, sub_pc, sub_result, connections, subscribe_requests,
                   stream_ended, frames, sent, consumed>>

\* a subscribe call has just been made
SubInit ==
    /\ DetectInit
    /\ TipIdle
    /\ ExecIdle
    /\ IngestIdle
    /\ RulesIdle
    /\ AlarmIdle
    /\ BundleIdle
    /\ DecodeIdle
    /\ sub_kind \in SubKinds
    /\ sub_pc = "connect"
    /\ sub_result = "running"
    /\ connections = 0
    /\ subscribe_requests = 0
    /\ stream_ended = FALSE
    /\ frames = <<>>
    /\ channel = <<>>
    /\ sent = <<>>
    /\ consumed = <<>>
    /\ receiver_open = TRUE

SubNext ==
    \/ (\E ok \in BOOLEAN : Connect(ok)) /\ UNCHANGED <<detect_vars, alarm_vars, bundle_vars, decode_vars, tip_vars, exec_vars, ingest_vars, rule_vars>>
    \/ (\E ok \in BOOLEAN : Subscribe(ok)) /\ UNCHANGED <<detect_vars, alarm_vars, bundle_vars, decode_vars, tip_vars, exec_vars, ingest_vars, rule_vars>>
    \/ (\E item \in StreamItems(sub_kind) : ReadItem(item)) /\ UNCHANGED <<detect_vars, alarm_vars, bundle_vars, decode_vars, tip_vars, exec_vars, ingest_vars, rule_vars>>
    \/ Recv /\ UNCHANGED <<detect_vars, alarm_vars, bundle_vars, decode_vars, tip_vars, exec_vars, ingest_vars, rule_vars>>
    \/ DropReceiver /\ UNCHANGED <<detect_vars, alarm_vars, bundle_vars, decode_vars, tip_vars, exec_vars, ingest_vars, rule_vars>>

SpecSub == SubInit /\ [][SubNext]_vars

(***************************************************************************)
(* Claims about the subscription client                                    *)
(***************************************************************************)

\* C15: no inbound text frame makes the subscription call stop: after a
\* text frame has been read, malformed or not, the call is still reading
\* (the frame was forwarded or dropped) and has not returned an error.
C15_TextFrameNeverEndsCall ==
    (frames # <<>> /\ frames[Len(frames)] \in TextFrames(sub_kind))
        => (sub_pc = "read" /\ sub_result = "running")

\* the frame numbers that have been put on the channel
SentSet == {sent[i] : i \in 1..Len(sent)}

\* C16: in the log subscription a notification is on the output channel only
\* if its frame has a params.result that decodes as the notification
\* envelope and the notification's err is null; a frame that fails either
\* condition sends nothing.
C16_ForwardingFilter ==
    sub_kind = "logs" =>
        \A n \in SentSet : Decodes(frames[n]) /\ ErrIsNone(frames[n])

\* a failed-transaction notification was read and dropped, and a
\* successful one was forwarded
C16_Witness ==
    /\ sub_kind = "logs"
    /\ \E n \in 1..Len(frames) : frames[n] = "notification_err" /\ n \notin SentSet
    /\ \E n \in SentSet : frames[n] = "notification"

\* C17: within one subscription stream notifications are forwarded in
\* receipt order: the frames come off the channel, and wait on it, in the
\* order in which they were read.
C17_ReceiptOrder ==
    LET out == consumed \o channel
    IN  \A i, j \in 1..Len(out) : i < j => out[i] < out[j]

\* two notifications were forwarded with a dropped frame between them, and
\* the consumer has taken both
C17_Witness ==
    /\ Len(consumed) = 2
    /\ consumed[2] - consumed[1] = 2

MaxRecords == 2

\* the length of one record: 8 + 32 + 8 + 8 + 1 + 32 + 8 + 8 + 8 + 8 + 8
RECORD_LEN == 129

\* Rust's s[lo..hi]: bytes lo, .., hi-1 counted from 0
Slice(s, lo, hi) == SubSeq(s, lo + 1, hi)

\* n bytes b
Repeat(b, n) == [i \in 1..n |-> b]

\* u64::from_le_bytes / i64::from_le_bytes: least significant byte first
RECURSIVE from_le_bytes(_)
from_le_bytes(b) ==
    IF b = <<>> THEN 0 ELSE Head(b) + 256 * from_le_bytes(Tail(b))

\* the n bytes of v, least significant first
RECURSIVE to_le_bytes(_, _)
to_le_bytes(v, n) ==
    IF n = 0 THEN <<>> ELSE <<v % 256>> \o to_le_bytes(v \div 256, n - 1)

\* base64 text of a byte sequence, standard alphabet, padded with '=':
\* every three bytes give four characters
Base64Encode(b) ==
    LET n == Len(b)
        At(i) == IF i <= n THEN b[i] ELSE 0
        Char(i) ==
            LET k == 3 * ((i - 1) \div 4)
                j == (i - 1) % 4
            IN  IF j = 0 THEN At(k + 1) \div 4
                ELSE IF j = 1 THEN (At(k + 1) % 4) * 16 + At(k + 2) \div 16
                ELSE IF j = 2
                THEN IF k + 2 > n THEN 64 ELSE (At(k + 2) % 16) * 4 + At(k + 3) \div 64
                ELSE IF k + 3 > n THEN 64 ELSE At(k + 3) % 64
    IN  [i \in 1..(4 * ((n + 2) \div 3)) |-> Char(i)]

\* the decoding failed
Base64Error == [ok |-> FALSE, bytes |-> <<>>]

\* base64.decode(data) of the STANDARD engine: four characters give three
\* bytes; padding is required and only ends the text; the bits left over in
\* a padded group must be zero
Base64Decode(t) ==
    LET n == Len(t)
        pad == IF n >= 2 /\ t[n] = 64 THEN (IF t[n - 1] = 64 THEN 2 ELSE 1) ELSE 0
        Byte(i) ==
            LET k == 4 * ((i - 1) \div 3)
                j == (i - 1) % 3
            IN  IF j = 0 THEN t[k + 1] * 4 + t[k + 2] \div 16
                ELSE IF j = 1 THEN (t[k + 2] % 16) * 16 + t[k + 3] \div 4
                ELSE (t[k + 3] % 4) * 64 + t[k + 4]
    IN  IF /\ n % 4 = 0
           /\ \A i \in 1..(n - pad) : t[i] <= 63
           /\ pad = 2 => t[n - 2] % 16 = 0
           /\ pad = 1 => t[n - 1] % 4 = 0
        THEN [ok |-> TRUE, bytes |-> [i \in 1..(3 * (n \div 4) - pad) |-> Byte(i)]]
        ELSE Base64Error

\* three base-58 digits at a time
Base58Cube == 58 * 58 * 58

\* long division of a big-endian number of at most four bytes by d, with
\* the remainder rem carried in from the bytes before
RECURSIVE DivBlock(_, _, _)
DivBlock(bytes, rem, d) ==
    IF bytes = <<>> THEN [q |-> <<>>, r |-> rem]
    ELSE LET cur == rem * 256 + Head(bytes)
             rest == DivBlock(Tail(bytes), cur % d, d)
         IN  [q |-> <<cur \div d>> \o rest.q, r |-> rest.r]

\* long division of a big-endian number by d, four bytes at a time
RECURSIVE DivBy(_, _, _)
DivBy(bytes, rem, d) ==
    IF Len(bytes) <= 4 THEN DivBlock(bytes, rem, d)
    ELSE LET first == DivBlock(SubSeq(bytes, 1, 4), rem, d)
             rest == DivBy(SubSeq(bytes, 5, Len(bytes)), first.r, d)
         IN  [q |-> first.q \o rest.q, r |-> rest.r]

\* the base-58 digits of a big-endian number, most significant first, with
\* no leading zero digit
RECURSIVE Base58Digits(_)
Base58Digits(bytes) ==
    IF \A i \in 1..Len(bytes) : bytes[i] = 0 THEN <<>>
    ELSE LET d == DivBy(bytes, 0, Base58Cube)
             high == Base58Digits(d.q)
             low == <<d.r \div (58 * 58), (d.r \div 58) % 58, d.r % 58>>
         IN  IF high # <<>> THEN high \o low
             ELSE IF low[1] # 0 THEN low
             ELSE IF low[2] # 0 THEN Tail(low)
             ELSE <<low[3]>>

\* the number of zero bytes at the front
LeadingZeros(bytes) ==
    Cardinality({i \in 1..Len(bytes) : \A j \in 1..i : bytes[j] = 0})

\* Pubkey::new_from_array(arr).to_string(): the base-58 text of the key, as
\* digit values; each leading zero byte gives one leading zero digit
PubkeyToString(arr) == Repeat(0, LeadingZeros(arr)) \o Base58Digits(arr)

\* the length check, accepting every buffer that holds at least one record
LengthOk_AtLeastOne(decoded) == Len(decoded) >= RECORD_LEN

\* the length check: decoded.len() % 129 == 0
LengthOk(decoded) == Len(decoded) % RECORD_LEN = 0

\* every slice and index the decoder takes lies inside the buffer
SlicesInRange(decoded) ==
    \A hi \in {40, 89, 48, 56, 57, 97, 105, 113, 121, 129} : hi <= Len(decoded)

\* the TradeEvent built from the buffer, with is_buy read one byte early
TradeEvent_IsBuyOneEarly(decoded) ==
    [name |-> "TradeEvent",
     mint |-> PubkeyToString(Slice(decoded, 8, 40)),
     sol_amount |-> from_le_bytes(Slice(decoded, 40, 48)),
     token_amount |-> from_le_bytes(Slice(decoded, 48, 56)),
     is_buy |-> decoded[55 + 1] # 0,
     user |-> PubkeyToString(Slice(decoded, 57, 89)),
     timestamp |-> from_le_bytes(Slice(decoded, 89, 97)),
     virtual_sol_reserves |-> from_le_bytes(Slice(decoded, 97, 105)),
     virtual_token_reserves |-> from_le_bytes(Slice(decoded, 105, 113)),
     real_sol_reserves |-> from_le_bytes(Slice(decoded, 113, 121)),
     real_token_reserves |-> from_le_bytes(Slice(decoded, 121, 129))]

\* the TradeEvent built from the buffer
TradeEvent(decoded) ==
    [name |-> "TradeEvent",
     mint |-> PubkeyToString(Slice(decoded, 8, 40)),
     sol_amount |-> from_le_bytes(Slice(decoded, 40, 48)),
     token_amount |-> from_le_bytes(Slice(decoded, 48, 56)),
     is_buy |-> decoded[56 + 1] # 0,
     user |-> PubkeyToString(Slice(decoded, 57, 89)),
     timestamp |-> from_le_bytes(Slice(decoded, 89, 97)),
     virtual_sol_reserves |-> from_le_bytes(Slice(decoded, 97, 105)),
     virtual_token_reserves |-> from_le_bytes(Slice(decoded, 105, 113)),
     real_sol_reserves |-> from_le_bytes(Slice(decoded, 113, 121)),
     real_token_reserves |-> from_le_bytes(Slice(decoded, 121, 129))]

\* what the decoder does with a line: Err(..), a panic in a slice, or Ok(event)
parse_log_subscribe_data(program_data) ==
    IF ~program_data.prefix
    THEN [outcome |-> "Err", event |-> <<>>]
    ELSE LET decoded == Base64Decode(program_data.text)
         IN  IF ~decoded.ok
             THEN [outcome |-> "Err", event |-> <<>>]
             ELSE IF ~LengthOk(decoded.bytes)
             THEN [outcome |-> "Err", event |-> <<>>]
             ELSE IF ~SlicesInRange(decoded.bytes)
             THEN [outcome |-> "panic", event |-> <<>>]
             ELSE [outcome |-> "Ok", event |-> TradeEvent(decoded.bytes)]

\* field values of the records the decoder is given
KeyBytes == {Repeat(0, 31) \o <<1>>, <<2>> \o Repeat(3, 31)}
Amounts == {0, 513, 66051}
FlagBytes == {0, 1, 2}

\* one 129-byte record with the given fields
Record(mint, sol_amount, is_buy, user, timestamp) ==
    <<189, 219, 127, 211, 78, 230, 97, 238>>
        \o mint
        \o to_le_bytes(sol_amount, 8)
        \o to_le_bytes(sol_amount + 1, 8)
        \o <<is_buy>>
        \o user
        \o to_le_bytes(timestamp, 8)
        \o to_le_bytes(timestamp + 2, 8)
        \o to_le_bytes(timestamp + 3, 8)
        \o to_le_bytes(sol_amount + 4, 8)
        \o to_le_bytes(sol_amount + 5, 8)

Records ==
    {Record(m, s, b, u, s + 7) : m \in KeyBytes, s \in Amounts, b \in FlagBytes, u \in KeyBytes}

\* k copies of the first record after r
RECURSIVE Followed(_, _)
Followed(r, k) ==
    IF k = 0 THEN r
    ELSE Followed(r, k - 1) \o Record(Repeat(9, 32), 9, 1, Repeat(9, 32), 9)

\* the buffers: empty, whole records, several records, and records with a
\* byte missing or a byte too many
Buffers ==
    {<<>>, <<1>>}
        \cup Records
        \cup {Followed(r, k) : r \in Records, k \in 1..(MaxRecords - 1)}
        \cup {SubSeq(r, 1, RECORD_LEN - 1) : r \in Records}
        \cup {Append(r, 7) : r \in Records}

\* what happens to the base64 text on the way
Damages == {"none", "bad_char", "cut"}

\* the text after the damage: a character outside the alphabet at the front
\* in place of the first one, or the last character missing
Damaged(text, damage) ==
    IF damage = "bad_char" THEN <<65>> \o (IF text = <<>> THEN <<>> ELSE Tail(text))
    ELSE IF damage = "cut" THEN SubSeq(text, 1, Len(text) - 1)
    ELSE text

\* the lines the decoder is given
Lines ==
    {Line(p, Damaged(Base64Encode(b), d), b, d) :
        p \in BOOLEAN, b \in Buffers, d \in Damages} \ 
    {Line(p, <<>>, <<>>, "cut") : p \in BOOLEAN}

\* a line is about to be decoded
DecodeInit ==
    /\ DetectInit
    /\ TipIdle
    /\ ExecIdle
    /\ IngestIdle
    /\ RulesIdle
    /\ AlarmIdle
    /\ BundleIdle
    /\ SubIdle
    /\ decode_input \in Lines
    /\ decode_result = Pending

\* the call of the decoder
Decode ==
    /\ decode_result = Pending
    /\ decode_result' = parse_log_subscribe_data(decode_input)
    /\ UNCHANGED decode_input

DecodeNext ==
    Decode /\ UNCHANGED <<detect_vars, alarm_vars, bundle_vars, sub_vars, tip_vars, exec_vars, ingest_vars, rule_vars>>

SpecDecode == DecodeInit /\ [][DecodeNext]_vars

(***************************************************************************)
(* Claims about the decoder                                                *)
(***************************************************************************)

\* C19: for every line with the prefix whose base64 payload decodes to a
\* byte length that is a multiple of 129, the zero-length payload included,
\* the decoder returns a value (an event or an error) and does not panic.
C19_TotalOnAlignedBuffers ==
    (/\ decode_result # Pending
     /\ decode_input.damage = "none"
     /\ Len(decode_input.payload) % 129 = 0)
        => decode_result.outcome \in {"Ok", "Err"}

\* C20: the decoder returns an error and no event whenever the prefix is
\* absent, the text after it is not valid base64, or the decoded length is
\* not an exact multiple of 129.
C20_MalformedInput ==
    (/\ decode_result # Pending
     /\ \/ ~decode_input.prefix
        \/ decode_input.damage # "none"
        \/ Len(decode_input.payload) % 129 # 0)
        => (decode_result.outcome = "Err" /\ decode_result.event = <<>>)

\* a line with the prefix and valid base64 of 130 bytes was refused
C20_Witness ==
    /\ decode_input.prefix
    /\ decode_input.damage = "none"
    /\ Len(decode_input.payload) = 130
    /\ decode_result.outcome = "Err"

\* the event a record built from these field values stands for
ExpectedEvent(mint, sol_amount, is_buy, user, timestamp) ==
    [name |-> "TradeEvent",
     mint |-> PubkeyToString(mint),
     sol_amount |-> sol_amount,
     token_amount |-> sol_amount + 1,
     is_buy |-> is_buy # 0,
     user |-> PubkeyToString(user),
     timestamp |-> timestamp,
     virtual_sol_reserves |-> timestamp + 2,
     virtual_token_reserves |-> timestamp + 3,
     real_sol_reserves |-> sol_amount + 4,
     real_token_reserves |-> sol_amount + 5]

\* C21: for a buffer of k records (k >= 1) the decoder returns the event of
\* the first record only, each field read at its fixed offset: a buffer
\* built from known field values gives back exactly those values.
C21_FirstRecordFields ==
    decode_result.outcome = "Ok" =>
        \E m \in KeyBytes, s \in Amounts, b \in FlagBytes, u \in KeyBytes :
            /\ SubSeq(decode_input.payload, 1, 129) = Record(m, s, b, u, s + 7)
            /\ decode_result.event = ExpectedEvent(m, s, b, u, s + 7)

\* a buffer of two records was decoded to the buy of the first record
C21_Witness ==
    /\ decode_result.outcome = "Ok"
    /\ Len(decode_input.payload) = 2 * 129
    /\ decode_result.event.is_buy
    /\ decode_result.event.sol_amount = 66051
    /\ decode_result.event.real_token_reserves = 66056

(***************************************************************************)
(* Claims about the configuration of the alarm rule                        *)
(***************************************************************************)

\* amount s is within pct percent of amount first
WithinPercent(s, first, pct) == 100 * Abs(s - first) <= pct * first

\* C30: the relative tolerance of the alarm rule is the configured alarm
\* threshold: a sequence of at least 3 events raises the alarm if and only
\* if its second and third amounts are within alarm_threshold of the first.
C30_ToleranceIsConfigured ==
    rule_result # "pending" =>
        LET a == AmountsOf(rule_events)
        IN  rule_result = "alarm" <=>
                (/\ Len(a) >= 3
                 /\ WithinPercent(a[2], a[1], alarm_threshold)
                 /\ WithinPercent(a[3], a[1], alarm_threshold))

(***************************************************************************)
(* The fee oracle: tip_stream writes the shared cell TIP_PERCENTILE,       *)
(* get_tip_value reads it.  Tips are in thousandths of a SOL.              *)
(***************************************************************************)

\* bound on the frames the feed loop reads
MaxFeedFrames == 3

\* the percentiles get_tip_value knows
SupportedPercentiles == {25, 50, 75, 95, 99}

\* values of tips_percentile in the configuration
ConfiguredPercentiles == SupportedPercentiles \cup {10}

\* snapshots: the landed tips of percentile 25, 50, 75, 95, 99
Snapshots == {<<1, 2, 5, 150, 250>>, <<3, 4, 6, 200, 300>>}

\* what the feed stream can yield: a text frame that parses as an array of
\* snapshots (of 0, 1 or 2 elements), a text frame that does not, a close
\* frame, another kind of message, a transport error, the end of the stream
ArrayFrame(elems) == [kind |-> "array", elems |-> elems]
OtherItem(kind) == [kind |-> kind, elems |-> <<>>]
FeedItems ==
    {ArrayFrame(<<>>)}
        \cup {ArrayFrame(<<a>>) : a \in Snapshots}
        \cup {ArrayFrame(<<a, b>>) : a, b \in Snapshots}
        \cup {OtherItem(k) : k \in {"undecodable", "close", "other", "transport_error", "end"}}

\* the field of a snapshot for a supported percentile, with 95 and 99 exchanged
PercentileField_Swapped(data, percentile) ==
    IF percentile = 25 THEN data[1]
    ELSE IF percentile = 50 THEN data[2]
    ELSE IF percentile = 75 THEN data[3]
    ELSE IF percentile = 95 THEN data[5]
    ELSE data[4]

\* the field of a snapshot for a supported percentile: the arms of the match
PercentileField(data, percentile) ==
    IF percentile = 25 THEN data[1]
    ELSE IF percentile = 50 THEN data[2]
    ELSE IF percentile = 75 THEN data[3]
    ELSE IF percentile = 95 THEN data[4]
    ELSE data[5]

\* a read that answers 0 SOL when the cell is empty or the percentile is
\* not one of the five
get_tip_value_ZeroWhenUnready(tips, tip_percent) ==
    IF tips.some /\ tip_percent \in SupportedPercentiles
    THEN [outcome |-> "Ok", value |-> PercentileField(tips.data, tip_percent)]
    ELSE [outcome |-> "Ok", value |-> 0]

\* get_tip_value on a clone of the cell
get_tip_value(tips, tip_percent) ==
    IF tips.some
    THEN IF tip_percent \in SupportedPercentiles
         THEN [outcome |-> "Ok", value |-> PercentileField(tips.data, tip_percent)]
         ELSE [outcome |-> "InvalidPercentile", value |-> 0]
    ELSE [outcome |-> "NoData", value |-> 0]

\* the element of a non-empty array that is kept, taken from the end
KeptElement_Last(data) == data[Len(data)]

\* the element of a non-empty array that is kept: data[0]
KeptElement(data) == data[1]

\* connect_async(tip_stream_url): the feed is connected, or tip_stream returns Err
FeedConnect(ok) ==
    /\ feed_pc = "connect"
    /\ feed_pc' = IF ok THEN "read" ELSE "done"
    /\ UNCHANGED <<tip_cell, tips_percentile, feed_frames, tip_read>>

\* one turn of the loop of tip_stream
FeedRead(item) ==
    /\ feed_pc = "read"
    /\ item \in FeedItems
    /\ Len(feed_frames) >= MaxFeedFrames => item.kind = "end"
    /\ feed_frames' = Append(feed_frames, item)
    /\ feed_pc' = IF item.kind \in {"close", "transport_error", "end"} THEN "done" ELSE "read"
    /\ tip_cell' = IF item.kind = "array" /\ item.elems # <<>>
                   THEN SomeSnapshot(KeptElement(item.elems))
                   ELSE tip_cell
    /\ UNCHANGED <<tips_percentile, tip_read>>

\* a reader calls get_tip_value
GetTip ==
    /\ feed_pc # "connect"
    /\ LET got == get_tip_value(tip_cell, tips_percentile)
       IN  tip_read' = [outcome |-> got.outcome, value |-> got.value, seen |-> tip_cell]
    /\ tip_read' # tip_read
    /\ UNCHANGED <<tip_cell, tips_percentile, feed_pc, feed_frames>>

\* the daemon has just spawned tip_stream
TipInit ==
    /\ DetectInit
    /\ AlarmIdle
    /\ BundleIdle
    /\ SubIdle
    /\ DecodeIdle
    /\ ExecIdle
    /\ IngestIdle
    /\ RulesIdle
    /\ tip_cell = NoSnapshot
    /\ tips_percentile \in ConfiguredPercentiles
    /\ feed_pc = "connect"
    /\ feed_frames = <<>>
    /\ tip_read = NotRead

TipNext ==
    \/ (\E ok \in BOOLEAN : FeedConnect(ok)) /\ UNCHANGED <<detect_vars, alarm_vars, bundle_vars, sub_vars, decode_vars, exec_vars, ingest_vars, rule_vars>>
    \/ (\E item \in FeedItems : FeedRead(item)) /\ UNCHANGED <<detect_vars, alarm_vars, bundle_vars, sub_vars, decode_vars, exec_vars, ingest_vars, rule_vars>>
    \/ GetTip /\ UNCHANGED <<detect_vars, alarm_vars, bundle_vars, sub_vars, decode_vars, exec_vars, ingest_vars, rule_vars>>

SpecTip == TipInit /\ [][TipNext]_vars

(***************************************************************************)
(* Claims about the fee oracle                                             *)
(***************************************************************************)

\* element 0 of the most recent frame among the first n that parsed as a
\* non-empty array, or no snapshot
RECURSIVE LatestSnapshot(_, _)
LatestSnapshot(read, n) ==
    IF n = 0 THEN NoSnapshot
    ELSE IF read[n].kind = "array" /\ read[n].elems # <<>>
    THEN SomeSnapshot(read[n].elems[1])
    ELSE LatestSnapshot(read, n - 1)

\* C23: get_tip fails with NoData if no snapshot has ever been received,
\* fails with InvalidPercentile if the percentile is not one of 25, 50, 75,
\* 95, 99, and otherwise returns the field of the latest snapshot for the
\* requested percentile.
C23_GetTip ==
    /\ [](tip_read # NotRead =>
            /\ ~tip_read.seen.some => tip_read.outcome = "NoData"
            /\ (tip_read.seen.some /\ tips_percentile \notin {25, 50, 75, 95, 99})
                   => tip_read.outcome = "InvalidPercentile"
            /\ (tip_read.seen.some /\ tips_percentile \in {25, 50, 75, 95, 99})
                   => /\ tip_read.outcome = "Ok"
                      /\ tips_percentile = 25 => tip_read.value = tip_read.seen.data[1]
                      /\ tips_percentile = 50 => tip_read.value = tip_read.seen.data[2]
                      /\ tips_percentile = 75 => tip_read.value = tip_read.seen.data[3]
                      /\ tips_percentile = 95 => tip_read.value = tip_read.seen.data[4]
                      /\ tips_percentile = 99 => tip_read.value = tip_read.seen.data[5])
    /\ [][tip_read' # tip_read =>
            tip_read'.seen = LatestSnapshot(feed_frames, Len(feed_frames))]_vars

\* percentile 95 was read from the second snapshot received
C23_Witness ==
    /\ tips_percentile = 95
    /\ tip_read.outcome = "Ok"
    /\ tip_read.value = 200
    /\ Len(feed_frames) >= 2

\* C24: the cell holds no snapshot or exactly element 0 of the most recent
\* text frame that parsed as a non-empty array; a frame that fails to
\* decode, or an empty array, leaves the cell as it was and does not end the
\* feed loop.
C24_CellIsLatestElementZero ==
    /\ tip_cell = LatestSnapshot(feed_frames, Len(feed_frames))
    /\ tip_read.seen \in {NoSnapshot} \cup {SomeSnapshot(a) : a \in Snapshots}
    /\ (/\ feed_frames # <<>>
        /\ \/ feed_frames[Len(feed_frames)].kind = "undecodable"
           \/ feed_frames[Len(feed_frames)] = ArrayFrame(<<>>))
           => feed_pc = "read"

\* a two-element array set the cell, and a frame that does not decode and
\* an empty array after it left the cell as it was
C24_Witness ==
    /\ Len(feed_frames) = 3
    /\ feed_frames[1].kind = "array"
    /\ Len(feed_frames[1].elems) = 2
    /\ feed_frames[1].elems[1] # feed_frames[1].elems[2]
    /\ feed_frames[2].kind = "undecodable"
    /\ feed_frames[3] = ArrayFrame(<<>>)
    /\ tip_cell = SomeSnapshot(feed_frames[1].elems[1])
    /\ feed_pc = "read"

(***************************************************************************)
(* The execution path: Swap::swap builds the instruction list,             *)
(* new_signed_and_send adds the tip transfer, signs, and submits the       *)
(* transaction as a bundle through JITO::send_bundle.                      *)
(***************************************************************************)

\* the cap of the tip, 0.2 SOL, in thousandths of a SOL
TIP_CAP == 200

\* values of extra_tip in the configuration
ExtraTips == {0, 1}

\* what the relay answers to sendBundle: a result that is a string, an
\* error object, a null result, a result that is not a string; or the
\* request itself fails
RelayResponses ==
    {"result_id", "error", "result_null", "result_number", "transport_error"}

\* the arguments Swap::swap is called with
SwapCalls ==
    {SwapArgs(b, a, n, again) :
        b \in BOOLEAN, a \in BOOLEAN, n \in {0, 1},
        again \in {"None", "Some(true)", "Some(false)"}}

\* buy_again.unwrap_or(false)
BuyAgain(args) == args.buy_again = "Some(true)"

\* an account-creation instruction is built, on a sell too
NeedsCreate_AlsoOnSell(args) == ~BuyAgain(args)

\* an account-creation instruction is built: is_buy && !buy_again
NeedsCreate(args) == args.is_buy /\ ~BuyAgain(args)

\* the instruction list of Swap::swap with the swap instruction always pushed
BuildInstructions_AlwaysSwap(args) ==
    (IF NeedsCreate(args) THEN <<"create_account">> ELSE <<>>) \o <<"swap">>

\* the instruction list of Swap::swap: the account creation if there is
\* one, then the swap instruction if token_amount > 0
BuildInstructions(args) ==
    (IF NeedsCreate(args) THEN <<"create_account">> ELSE <<>>)
        \o (IF args.token_amount > 0 THEN <<"swap">> ELSE <<>>)

\* the tip with the larger of the two values taken
CappedTip_Max(value) == IF value > TIP_CAP THEN value ELSE TIP_CAP

\* tip.min(0.2)
CappedTip(value) == IF value < TIP_CAP THEN value ELSE TIP_CAP

\* the bundle id of a relay response, any result being taken as the id
BundleIdOf_AnyResult(response) ==
    IF response \in {"result_id", "result_number"} THEN "bundle-1" ELSE "none"

\* response["result"].as_str(): the id, or none
BundleIdOf(response) == IF response = "result_id" THEN "bundle-1" ELSE "none"

\* Swap::swap up to its call of new_signed_and_send
SwapBuild ==
    /\ exec_pc = "swap"
    /\ IF ~exec_args.address_ok
       THEN /\ exec_pc' = "done"
            /\ exec_result' = "Err(mint)"
            /\ UNCHANGED instructions
       ELSE IF BuildInstructions(exec_args) = <<>>
       THEN /\ exec_pc' = "done"
            /\ exec_result' = "Err(NoOp)"
            /\ UNCHANGED instructions
       ELSE /\ exec_pc' = "tip"
            /\ instructions' = BuildInstructions(exec_args)
            /\ UNCHANGED exec_result
    /\ UNCHANGED <<exec_args, tip_account_requests, tip_capped, tip, extra_tip,
                   simulate, signed, bundles_submitted, relay_response, bundle_id>>

\* new_signed_and_send: the tip account, the tip and the tip transfer
AddTip(account_ok) ==
    /\ exec_pc = "tip"
    /\ tip_account_requests' = tip_account_requests + 1
    /\ LET got == get_tip_value(tip_cell, tips_percentile)
       IN  IF ~account_ok
           THEN /\ exec_pc' = "done"
                /\ exec_result' = "Err(tip account)"
                /\ UNCHANGED <<tip_capped, tip, instructions>>
           ELSE IF got.outcome # "Ok"
           THEN /\ exec_pc' = "done"
                /\ exec_result' = "Err(tip value)"
                /\ UNCHANGED <<tip_capped, tip, instructions>>
           ELSE /\ exec_pc' = "sign"
                /\ tip_capped' = CappedTip(got.value)
                /\ tip' = CappedTip(got.value) + extra_tip
                /\ instructions' = Append(instructions, "tip_transfer")
                /\ UNCHANGED exec_result
    /\ UNCHANGED <<exec_args, extra_tip, simulate, signed, bundles_submitted,
                   relay_response, bundle_id>>

\* new_signed_and_send: the blockhash, the signature, and the simulation
\* when TX_SIMULATE is set
Sign(rpc_ok) ==
    /\ exec_pc = "sign"
    /\ IF ~rpc_ok
       THEN /\ exec_pc' = "done"
            /\ exec_result' = "Err(rpc)"
            /\ UNCHANGED signed
       ELSE /\ signed' = instructions
            /\ IF simulate
               THEN exec_pc' = "done" /\ exec_result' = "Ok"
               ELSE exec_pc' = "submit" /\ UNCHANGED exec_result
    /\ UNCHANGED <<exec_args, instructions, tip_account_requests, tip_capped, tip,
                   extra_tip, simulate, bundles_submitted, relay_response, bundle_id>>

\* new_signed_and_send: send_bundle and the return
Submit(response) ==
    /\ exec_pc = "submit"
    /\ response \in RelayResponses
    /\ bundles_submitted' = bundles_submitted + 1
    /\ relay_response' = response
    /\ exec_pc' = "done"
    /\ IF response = "transport_error"
       THEN /\ exec_result' = "Err(relay request)"
            /\ UNCHANGED bundle_id
       ELSE IF BundleIdOf(response) = "none"
       THEN /\ exec_result' = "Err(no bundle id)"
            /\ UNCHANGED bundle_id
       ELSE /\ exec_result' = "Ok"
            /\ bundle_id' = BundleIdOf(response)
    /\ UNCHANGED <<exec_args, instructions, tip_account_requests, tip_capped, tip,
                   extra_tip, simulate, signed>>

\* Swap::swap has just been called
ExecInit ==
    /\ DetectInit
    /\ AlarmIdle
    /\ BundleIdle
    /\ SubIdle
    /\ DecodeIdle
    /\ IngestIdle
    /\ RulesIdle
    /\ tip_cell \in {NoSnapshot} \cup {SomeSnapshot(a) : a \in Snapshots}
    /\ tips_percentile \in ConfiguredPercentiles
    /\ feed_pc = "done"
    /\ feed_frames = <<>>
    /\ tip_read = NotRead
    /\ exec_args \in SwapCalls
    /\ exec_pc = "swap"
    /\ exec_result = "running"
    /\ instructions = <<>>
    /\ tip_account_requests = 0
    /\ tip_capped = 0
    /\ tip = 0
    /\ extra_tip \in ExtraTips
    /\ simulate \in BOOLEAN
    /\ signed = <<>>
    /\ bundles_submitted = 0
    /\ relay_response = "none"
    /\ bundle_id = "none"

ExecNext ==
    \/ SwapBuild /\ UNCHANGED <<detect_vars, alarm_vars, bundle_vars, sub_vars, decode_vars, tip_vars, ingest_vars, rule_vars>>
    \/ (\E ok \in BOOLEAN : AddTip(ok)) /\ UNCHANGED <<detect_vars, alarm_vars, bundle_vars, sub_vars, decode_vars, tip_vars, ingest_vars, rule_vars>>
    \/ (\E ok \in BOOLEAN : Sign(ok)) /\ UNCHANGED <<detect_vars, alarm_vars, bundle_vars, sub_vars, decode_vars, tip_vars, ingest_vars, rule_vars>>
    \/ (\E response \in RelayResponses : Submit(response)) /\ UNCHANGED <<detect_vars, alarm_vars, bundle_vars, sub_vars, decode_vars, tip_vars, ingest_vars, rule_vars>>

SpecExec == ExecInit /\ [][ExecNext]_vars

(***************************************************************************)
(* Claims about the execution path                                         *)
(***************************************************************************)

\* the tip transfer has been added to the instruction list
TipAdded == instructions # <<>> /\ instructions[Len(instructions)] = "tip_transfer"

\* the value the oracle holds for the configured percentile
OracleValue ==
    tip_cell.data[CHOOSE i \in 1..5 : <<25, 50, 75, 95, 99>>[i] = tips_percentile]

\* C22: the tip is min(oracle value, 0.2 SOL) + extra tip: for an oracle
\* value of 0.2 SOL or more the tip before the extra tip is exactly 0.2 SOL,
\* for a smaller oracle value it is the oracle value.
C22_TipCapped ==
    TipAdded =>
        /\ OracleValue >= 200 => tip_capped = 200
        /\ OracleValue < 200 => tip_capped = OracleValue
        /\ tip = tip_capped + extra_tip

\* an oracle value of 0.3 SOL gave a tip of 0.2 SOL plus the extra tip
C22_Witness ==
    /\ TipAdded
    /\ OracleValue = 300
    /\ extra_tip = 1
    /\ tip = 201

\* the call needs no instruction: no tokens to swap and no account to create
NothingToDo ==
    /\ exec_args.token_amount = 0
    /\ ~exec_args.is_buy \/ exec_args.buy_again = "Some(true)"

\* C25: the swap builder returns the NoOp failure exactly when the
\* instruction list is empty, that is token_amount = 0 and no account
\* creation (a sell, or a repeat buy); then nothing is signed, no tip
\* account is requested and no bundle is submitted.
C25_NoOp ==
    /\ exec_result = "Err(NoOp)" =>
           /\ NothingToDo
           /\ signed = <<>>
           /\ tip_account_requests = 0
           /\ bundles_submitted = 0
    /\ (exec_pc # "swap" /\ exec_args.address_ok /\ NothingToDo) => exec_result = "Err(NoOp)"

\* a repeat buy of zero tokens was refused
C25_Witness ==
    /\ exec_result = "Err(NoOp)"
    /\ exec_args.is_buy
    /\ exec_args.buy_again = "Some(true)"

\* the positions of the instructions of one kind
Positions(list, kind) == {i \in 1..Len(list) : list[i] = kind}

\* C26: in the submitted transaction an account-creation instruction is
\* present if and only if the call is a buy flagged as first-time, and then
\* it is first; the swap instruction follows it when token_amount > 0; the
\* tip transfer is always the last instruction.
C26_InstructionOrder ==
    signed # <<>> =>
        LET first_buy == exec_args.is_buy /\ exec_args.buy_again # "Some(true)"
            creates == Positions(signed, "create_account")
            swaps == Positions(signed, "swap")
            tips == Positions(signed, "tip_transfer")
        IN  /\ creates = IF first_buy THEN {1} ELSE {}
            /\ swaps = IF exec_args.token_amount > 0
                       THEN {Cardinality(creates) + 1}
                       ELSE {}
            /\ tips = {Len(signed)}
            /\ Len(signed) = Cardinality(creates) + Cardinality(swaps) + 1

\* a first-time buy was signed as account creation, swap, tip transfer
C26_Witness ==
    /\ signed = <<"create_account", "swap", "tip_transfer">>
    /\ exec_args.buy_again = "None"
    /\ bundles_submitted = 1

\* C27: bundle submission returns the bundle id when the relay response
\* carries it as result, and fails whenever the id is absent from the
\* response; a rejected submission is never reported as a success.
C27_RelayRejected ==
    bundles_submitted > 0 =>
        /\ relay_response = "result_id" => (bundle_id = "bundle-1" /\ exec_result = "Ok")
        /\ relay_response # "result_id" =>
               (bundle_id = "none" /\ exec_result \notin {"Ok", "running"})

\* the relay answered with an error object and the call failed
C27_Witness ==
    /\ relay_response = "error"
    /\ exec_result = "Err(no bundle id)"
    /\ bundle_id = "none"

\* the status polling of check_bundle_status has been started
PollingStarted ==
    \/ bundle_pc # "done"
    \/ in_flight_polls > 0
    \/ bundle_result # "running"

\* C28: every bundle the execution path submits successfully is tracked:
\* when the execution call has returned with a bundle id, the status
\* polling for it has been started.
C28_SubmittedIsTracked ==
    (exec_pc = "done" /\ bundle_id # "none") => PollingStarted

\* C29: when the Detection Engine has raised an alarm for a mint, the
\* Execution Engine is invoked for it: once the sweep that raised the alarm
\* has finished, Swap::swap has been called.
C29_AlarmInvokesExecution ==
    ((\E i \in 1..Len(alarms) : alarms[i].sol >= NOISE_FLOOR) /\ sweep_pc = "tick")
        => exec_pc # "idle"

\* the fee oracle cannot answer: the cell is empty or the configured
\* percentile is not one of the five
OracleUnready == ~tip_cell.some \/ tips_percentile \notin SupportedPercentiles

\* C35: if the fee oracle has no snapshot yet, or the configured percentile
\* is unsupported, the execution path fails before anything is signed or
\* submitted: no transaction is signed, no bundle reaches the relay, and a
\* call that got as far as the tip has returned an error.
C35_UnreadyOracleStopsAttempt ==
    OracleUnready =>
        /\ signed = <<>>
        /\ bundles_submitted = 0
        /\ exec_pc \notin {"sign", "submit"}
        /\ tip_account_requests > 0 =>
               /\ exec_pc = "done"
               /\ exec_result \in {"Err(tip account)", "Err(tip value)"}

\* a swap was built, the tip was asked for while the cell was empty, and the
\* call returned the error of the oracle
C35_Witness ==
    /\ ~tip_cell.some
    /\ instructions # <<>>
    /\ tip_account_requests = 1
    /\ exec_pc = "done"
    /\ exec_result = "Err(tip value)"
    /\ signed = <<>>
    /\ bundles_submitted = 0

(***************************************************************************)
(* The ingestion loop of MonitorRule::should_alert (strategies/mod.rs      *)
(* 75-91): log notifications are taken from the channel, the first data    *)
(* line of a notification with the buy marker is decoded, and the event is *)
(* handed to deal_scan_dealer.  In SpecIngest the sol_amount of a record  *)
(* counts units of 0.05 SOL.                                               *)
(***************************************************************************)
\* strategies/mod.rs:49
BUY_FLAG == "Program log: Instruction: Buy"
\* strategies/mod.rs:50
SELL_FLAG == "Program log: Instruction: Sell"
\* strategies/mod.rs:48   the characters "vdt" that DATA_FLAG has after
\* "Program data: ", as digits of the base64 alphabet
DATA_FLAG_DIGITS == <<47, 29, 45>>

\* a log line of a notification: its text, and for a line that starts with
\* "Program data: " the line as the decoder sees it
LogLine(text) == [text |-> text, data |-> NoLine]
DataLine(line) == [text |-> "Program data: ..", data |-> line]

\* strategies/mod.rs:77   logs.logs.contains(&BUY_FLAG.to_string()): one of
\* the lines is the buy marker
HasBuyFlag(n) == \E i \in 1..Len(n) : n[i].text = BUY_FLAG

\* strategies/mod.rs:79   log.contains(&DATA_FLAG).  A line that holds the
\* data prefix somewhere after its start is not among the lines of the model
ContainsDataFlag(log) ==
    /\ log.data.prefix
    /\ Len(log.data.text) >= Len(DATA_FLAG_DIGITS)
    /\ SubSeq(log.data.text, 1, Len(DATA_FLAG_DIGITS)) = DATA_FLAG_DIGITS

\* a loop that decodes the last line with the data prefix
DataLineToDecode_Last(n) ==
    LET data_lines == {i \in 1..Len(n) : ContainsDataFlag(n[i])}
    IN  IF data_lines = {} THEN 0
        ELSE CHOOSE i \in data_lines : \A j \in data_lines : j <= i

\* strategies/mod.rs:78-88   the for loop stops at the first line with the
\* data prefix (both branches end in break); 0 when no line has it
DataLineToDecode(n) ==
    LET data_lines == {i \in 1..Len(n) : ContainsDataFlag(n[i])}
    IN  IF data_lines = {} THEN 0
        ELSE CHOOSE i \in data_lines : \A j \in data_lines : i <= j

\* a loop that returns from should_alert after a decode error
AfterParseError_Return == "done"

\* strategies/mod.rs:82-85   the else branch logs and breaks out of the for
\* loop; the while loop goes on with the next recv
AfterParseError == "recv"

\* the notifications the channel can deliver.  The data lines carry the
\* base64 text of a buffer, damaged on the way or not: two buys, a sell and
\* a buy of 0 SOL, a buy whose last base64 character is missing, a record
\* with one byte too many, "Program data: " with nothing after it, and a buy
\* with a character outside the alphabet in place of the 'v'
Notifications ==
    LET key1 == Repeat(0, 31) \o <<1>>
        key2 == <<2>> \o Repeat(3, 31)
        buy_record == Record(key1, 513, 1, key2, 520)
        data_line(buffer, damage) ==
            DataLine(Line(TRUE, Damaged(Base64Encode(buffer), damage), buffer, damage))
        buy == data_line(buy_record, "none")
        other_buy == data_line(Record(key2, 66051, 1, key1, 66058), "none")
        sell == data_line(Record(key1, 513, 0, key2, 520), "none")
        small_buy == data_line(Record(key1, 0, 1, key2, 7), "none")
        cut_line == data_line(buy_record, "cut")
        long_line == data_line(Append(buy_record, 7), "none")
        empty_line == data_line(<<>>, "none")
        bad_char_line == data_line(buy_record, "bad_char")
    IN  {<<LogLine(BUY_FLAG), buy>>,
         <<LogLine(BUY_FLAG), other_buy>>,
         <<LogLine(BUY_FLAG), small_buy>>,
         <<buy>>,
         <<LogLine(SELL_FLAG), sell>>,
         <<LogLine(BUY_FLAG)>>,
         <<LogLine(BUY_FLAG), cut_line>>,
         <<LogLine(BUY_FLAG), long_line>>,
         <<LogLine(BUY_FLAG), buy, other_buy>>,
         <<LogLine(BUY_FLAG), cut_line, buy>>,
         <<LogLine(BUY_FLAG), empty_line, bad_char_line, other_buy>>,
         <<LogLine(SELL_FLAG), sell, LogLine(BUY_FLAG), buy>>}

\* strategies/mod.rs:75-90   one iteration of "while let Some(logs) =
\* receiver.recv().await"
IngestNotification(n) ==
    /\ ingest_pc = "recv"
    /\ handled < MaxEvents
    /\ handled' = handled + 1
    /\ logs' = n
    /\ LET i == DataLineToDecode(n)
       IN  IF ~HasBuyFlag(n) \/ i = 0
           THEN /\ decoded_lines' = <<>>
                /\ UNCHANGED <<ingest_pc, error_log, detect_vars>>
           ELSE LET r == parse_log_subscribe_data(n[i].data)
                IN  /\ decoded_lines' = <<i>>
                    /\ IF r.outcome = "Ok"
                       THEN /\ deal_scan_dealer(r.event)
                            /\ UNCHANGED <<ingest_pc, error_log>>
                       ELSE IF r.outcome = "Err"
                       THEN /\ error_log' = error_log + 1
                            /\ ingest_pc' = AfterParseError
                            /\ UNCHANGED detect_vars
                       ELSE /\ ingest_pc' = "panicked"
                            /\ UNCHANGED <<error_log, detect_vars>>

\* strategies/mod.rs:75, 91   recv() returns None once the subscription task
\* has ended and dropped the sender: the loop ends and should_alert returns
\* Ok(())
ChannelClosed ==
    /\ ingest_pc = "recv"
    /\ ingest_pc' = "done"
    /\ UNCHANGED <<logs, handled, error_log, decoded_lines, detect_vars>>

\* should_alert has set up the manager and the subscription and waits for
\* the first notification
IngestInit ==
    /\ DetectInit
    /\ AlarmIdle
    /\ BundleIdle
    /\ SubIdle
    /\ DecodeIdle
    /\ TipIdle
    /\ ExecIdle
    /\ RulesIdle
    /\ ingest_pc = "recv"
    /\ logs = <<>>
    /\ handled = 0
    /\ error_log = 0
    /\ decoded_lines = <<>>

IngestNext ==
    \/ (\E n \in Notifications : IngestNotification(n)) /\ UNCHANGED <<alarm_vars, bundle_vars, sub_vars, decode_vars, tip_vars, exec_vars, rule_vars>>
    \/ ChannelClosed /\ UNCHANGED <<alarm_vars, bundle_vars, sub_vars, decode_vars, tip_vars, exec_vars, rule_vars>>
    \/ RunAddEvent /\ UNCHANGED <<alarm_vars, bundle_vars, sub_vars, decode_vars, tip_vars, exec_vars, ingest_vars, rule_vars>>

SpecIngest == IngestInit /\ [][IngestNext]_vars

(***************************************************************************)
(* The start of the monitors: daemon() spawns one should_alert task for    *)
(* every rule of c.monitors, and every task sets up the statistics manager *)
(* the sweep and its log subscription before it enters the ingestion loop. *)
(***************************************************************************)
\* bound on the number of rules in c.monitors
MaxRules == 4

\* scan_dealer.rs:42-44   OnceCell::set gives Ok only while the cell is empty
SetSucceeds(cell) == ~cell

\* daemon.rs:9-21   one iteration of "for m in &c.monitors": a tip_stream
\* task and the should_alert task of the rule are spawned
DaemonSpawn ==
    /\ daemon_pc < monitors
    /\ daemon_pc' = daemon_pc + 1
    /\ tip_streams' = tip_streams + 1
    /\ rule_pc' = [rule_pc EXCEPT ![daemon_pc + 1] = "init"]
    /\ UNCHANGED <<monitors, manager_cell, sweep_tasks, log_subscriptions>>

\* strategies/mod.rs:59 and scan_dealer.rs:31-47   init_statistics_manager()
\* .await?: an Err of set is returned from should_alert, and the task of
\* daemon.rs:17-21 logs "Monitor error" and ends
InitManager(r) ==
    /\ rule_pc[r] = "init"
    /\ IF SetSucceeds(manager_cell)
       THEN /\ manager_cell' = TRUE
            /\ rule_pc' = [rule_pc EXCEPT ![r] = "start_monitor"]
       ELSE /\ rule_pc' = [rule_pc EXCEPT ![r] = "failed"]
            /\ UNCHANGED manager_cell
    /\ UNCHANGED <<monitors, daemon_pc, sweep_tasks, log_subscriptions,
                   tip_streams>>

\* strategies/mod.rs:60-61 and scan_dealer.rs:56-60   start_monitor spawns
\* the sweep task
StartMonitor(r) ==
    /\ rule_pc[r] = "start_monitor"
    /\ sweep_tasks' = sweep_tasks + 1
    /\ rule_pc' = [rule_pc EXCEPT ![r] = "subscribe"]
    /\ UNCHANGED <<monitors, daemon_pc, manager_cell, log_subscriptions,
                   tip_streams>>

\* strategies/mod.rs:64-75   the channel is made, the start_log_subscribe
\* task is spawned and the task enters the ingestion loop
StartSubscription(r) ==
    /\ rule_pc[r] = "subscribe"
    /\ log_subscriptions' = log_subscriptions + 1
    /\ rule_pc' = [rule_pc EXCEPT ![r] = "streaming"]
    /\ UNCHANGED <<monitors, daemon_pc, manager_cell, sweep_tasks,
                   tip_streams>>

\* daemon() is called with a configuration of 1..MaxRules rules
RulesInit ==
    /\ DetectInit
    /\ AlarmIdle
    /\ BundleIdle
    /\ SubIdle
    /\ DecodeIdle
    /\ TipIdle
    /\ ExecIdle
    /\ IngestIdle
    /\ monitors \in 1..MaxRules
    /\ daemon_pc = 0
    /\ manager_cell = FALSE
    /\ rule_pc = [r \in 1..monitors |-> "unspawned"]
    /\ sweep_tasks = 0
    /\ log_subscriptions = 0
    /\ tip_streams = 0

RulesNext ==
    \/ DaemonSpawn /\ UNCHANGED <<detect_vars, alarm_vars, bundle_vars, sub_vars, decode_vars, tip_vars, exec_vars, ingest_vars>>
    \/ (\E r \in 1..monitors : InitManager(r)) /\ UNCHANGED <<detect_vars, alarm_vars, bundle_vars, sub_vars, decode_vars, tip_vars, exec_vars, ingest_vars>>
    \/ (\E r \in 1..monitors : StartMonitor(r)) /\ UNCHANGED <<detect_vars, alarm_vars, bundle_vars, sub_vars, decode_vars, tip_vars, exec_vars, ingest_vars>>
    \/ (\E r \in 1..monitors : StartSubscription(r)) /\ UNCHANGED <<detect_vars, alarm_vars, bundle_vars, sub_vars, decode_vars, tip_vars, exec_vars, ingest_vars>>

SpecRules == RulesInit /\ [][RulesNext]_vars

(***************************************************************************)
(* Claims about the start of the monitors.                                 *)
(***************************************************************************)
\* C33: every configured rule reaches the Streaming state, also when more
\* than one rule is configured: no should_alert task ends with an error
\* before its sweep and its log subscription have been started.
C33_EveryRuleStreams ==
    \A r \in 1..monitors : rule_pc[r] # "failed"

(***************************************************************************)
(* Claims about the sweep's removals and the ingestion loop.               *)
(***************************************************************************)
\* the sweep examines the bucket of timestamp ts in this step
Examines(ts) == sweep_pc = "eval" /\ ts \in todo /\ ts \notin todo'

\* the sweep takes its snapshot in this step
TakesSnapshot == sweep_pc = "tick" /\ sweep_pc' = "eval"

\* the sweep removes the buckets of its remove list in this step
Removes == sweep_pc = "eval" /\ sweep_pc' = "tick"

\* C31: a sweep removes exactly the buckets whose age, the clock minus the
\* bucket's timestamp, was at least 5 seconds when the sweep examined them.
\* The remove list is empty after the snapshot, an examination puts the
\* timestamp on it exactly when the age is at least 5, and the removal takes
\* exactly the listed buckets out of the window; every other bucket, one
\* with a timestamp in the future included, is left as it was, and the
\* snapshot and the examinations change nothing in the window.
C31_SweepRemovesAged ==
    [][/\ TakesSnapshot => (remove_list' = {} /\ statistics_map' = statistics_map)
       /\ \A ts \in Timestamps :
              Examines(ts) =>
                  /\ remove_list' =
                         IF now - ts >= MIN_AGE_SECS THEN remove_list \cup {ts}
                         ELSE remove_list
                  /\ statistics_map' = statistics_map
       /\ Removes =>
              /\ remove_list \subseteq DOMAIN statistics_map
              /\ DOMAIN statistics_map' = DOMAIN statistics_map \ remove_list
              /\ \A t \in DOMAIN statistics_map' :
                     statistics_map'[t] = statistics_map[t]]_vars

\* a sweep has removed the aged bucket of timestamp 0 and the bucket of the
\* future timestamp 9 is in the window
C31_Witness ==
    /\ sweep_pc = "tick"
    /\ \E r \in removed_log : r.ts = 0
    /\ 0 \notin DOMAIN statistics_map
    /\ 9 \in DOMAIN statistics_map
    /\ now - 9 < 0

\* line i is the first line of notification n that holds the data prefix
FirstDataLine(n, i) ==
    /\ i \in 1..Len(n)
    /\ ContainsDataFlag(n[i])
    /\ \A j \in 1..(i - 1) : ~ContainsDataFlag(n[j])

\* the data line was made from a whole number (at least one) of 129-byte
\* records and its base64 text arrived undamaged
WellFormed(line) ==
    /\ line.damage = "none"
    /\ Len(line.payload) >= RECORD_LEN
    /\ Len(line.payload) % RECORD_LEN = 0

\* the loop takes a notification from the channel in this step
TakesNotification == handled' = handled + 1

\* C32: a data line that fails to decode is logged and skipped.  When the
\* line the loop decodes is not well-formed, the step logs one error line,
\* adds nothing to the window and spawns no add_event task, and the loop
\* waits for the next notification; a notification whose first data line is
\* well-formed is then processed as always, one add_event task is spawned.
C32_DecodeFailureSkipped ==
    [][TakesNotification =>
           \A i \in 1..Len(logs') :
               (HasBuyFlag(logs') /\ FirstDataLine(logs', i)) =>
                   IF WellFormed(logs'[i].data)
                   THEN /\ Cardinality(spawned' \ spawned) = 1
                        /\ error_log' = error_log
                        /\ ingest_pc' = "recv"
                   ELSE /\ error_log' = error_log + 1
                        /\ statistics_map' = statistics_map
                        /\ spawned' = spawned
                        /\ ingest_pc' = "recv"]_vars

\* the first notification had a data line that does not decode, the second
\* one was decoded and its event is in the window
C32_Witness ==
    /\ handled = 2
    /\ error_log = 1
    /\ Len(logs) = 2
    /\ logs[1].text = BUY_FLAG
    /\ WellFormed(logs[2].data)
    /\ received = 1
    /\ \E e \in WindowEvents : e.seq = 1 /\ e.sol_amount = 513

\* C34: every event stored in the window is a buy event.
C34_OnlyBuysStored ==
    \A e \in WindowEvents : e.is_buy

\* the fields of the event of the first record of a buffer that the engine
\* reads
EngineFields(payload) ==
    LET event == TradeEvent(payload)
    IN  [mint |-> event.mint, sol_amount |-> event.sol_amount,
         timestamp |-> event.timestamp, is_buy |-> event.is_buy]

\* C36: for each notification taken from the channel at most one TradeEvent
\* is added to the window.  A step of the loop spawns at most one add_event
\* task, only for a notification with the buy marker line, and its event is
\* the one of the first line with the data prefix; no other line is handed
\* to the decoder.  An add_event task adds nothing but its own event, so the
\* window and the tasks together never hold more events than notifications
\* were taken.
C36_OneEventPerNotification ==
    /\ [](Cardinality(WindowEvents \cup spawned) <= handled)
    /\ [][/\ TakesNotification =>
              /\ spawned \subseteq spawned'
              /\ statistics_map' = statistics_map
              /\ Cardinality(spawned' \ spawned) <= 1
              /\ \A i \in 1..Len(decoded_lines') :
                     FirstDataLine(logs', decoded_lines'[i])
              /\ Len(decoded_lines') <= 1
              /\ \A e \in spawned' \ spawned :
                     /\ HasBuyFlag(logs')
                     /\ decoded_lines' # <<>>
                     /\ [mint |-> e.mint, sol_amount |-> e.sol_amount,
                         timestamp |-> e.timestamp, is_buy |-> e.is_buy]
                            = EngineFields(logs'[decoded_lines'[1]].data.payload)
          /\ (spawned' # spawned /\ ~TakesNotification) =>
              /\ Cardinality(spawned \ spawned') = 1
              /\ WindowEvents' \subseteq WindowEvents \cup (spawned \ spawned')]_vars

\* a notification with the buy marker and two data lines was taken, and the
\* window holds the event of the first of the two, and nothing else
C36_Witness ==
    /\ handled = 1
    /\ Len(logs) = 3
    /\ logs[1].text = BUY_FLAG
    /\ FirstDataLine(logs, 2) /\ WellFormed(logs[2].data)
    /\ ContainsDataFlag(logs[3]) /\ WellFormed(logs[3].data)
    /\ spawned = {}
    /\ Cardinality(WindowEvents) = 1
    /\ \A e \in WindowEvents : e.sol_amount = 513 /\ e.timestamp = 520

(***************************************************************************)
(* Claims about the sweep under fair scheduling.                           *)
(***************************************************************************)
\* C37: under fair sweep ticks and advancing time every bucket is
\* eventually removed.  Whenever the window holds a bucket whose timestamp
\* is at least 5 seconds in the past, a later state has no bucket of that
\* timestamp, whatever events arrive in between; and since the clock moves
\* on, a bucket whose timestamp the clock can get 5 seconds past is
\* eventually removed from the moment it exists.
C37_EveryBucketRemoved ==
    \A t \in Timestamps :
        /\ (t \in DOMAIN statistics_map /\ now - t >= MIN_AGE_SECS)
               ~> (t \notin DOMAIN statistics_map)
        /\ (t \in DOMAIN statistics_map /\ t + MIN_AGE_SECS <= StartNow + MaxClockSteps)
               ~> (t \notin DOMAIN statistics_map)

\* the bucket of timestamp 0 was removed, an event that arrived afterwards
\* made it anew, and a later sweep removed it again
C37_Witness ==
    /\ RemovalCount(0) = 2
    /\ 0 \notin DOMAIN statistics_map
    /\ now - 0 >= MIN_AGE_SECS

====
